---- MODULE Spec2Model ----
(***************************************************************************)
(* Adaptive schema and delta-merge engine of the campaign data processor.  *)
(*                                                                         *)
(* The warehouse (Snowflake) is modelled by the objects the engine's SQL   *)
(* touches: the schema objects created by create_schema_and_tables, the    *)
(* two destination tables (their column types and their rows), the         *)
(* temporary tables the upserts stage into, the joined view and the        *)
(* processing log.  Every blocking warehouse call is one step; a call that *)
(* raises has no effect on the warehouse (statement atomicity).            *)
(*                                                                         *)
(* Warehouse semantics the SQL relies on and the model follows:            *)
(*  - PRIMARY KEY on a standard table is recorded but not enforced as a    *)
(*    uniqueness constraint;                                               *)
(*  - MERGE under the default session parameters raises when one target    *)
(*    row is matched by more than one source row, and inserts every source *)
(*    row that matches no target row;                                      *)
(*  - ALTER TABLE ... ADD COLUMN gives existing rows NULL in the column.   *)
(***************************************************************************)
EXTENDS Integers, Sequences, FiniteSets, Bags, TLC

\* ------------------------------------------------------------------ bounds
MaxDfRows == 2     \* rows of an input table

\* ------------------------------------------------------- value domains
Kinds == {"naming", "campaign"}
Procs == {"p1"}
Waves == {"1", "2"}
NULL == "NULL"
Absent == "absent"
NoTable == [columns |-> {}, rows |-> EmptyBag, exists |-> FALSE]

NewColumn == "quantum_engagement_coefficient"
NewValue == "7.42"

Columns ==
    {"ad_name", "ad_set_name", "amount_spent_usd", "audience",
     "wave_number", "upload_timestamp", NewColumn,
     "campaign_name", "ends", "bid", "reach", "adname", "sends"}

\* the merge key of each destination table (ON target.<key> = source."<key>")
KeyColumn(kind) == IF kind = "campaign" THEN "ad_name" ELSE "ad_set_name"

\* one declared non-key column stands for the declared metrics/descriptors
DataColumn(kind) == IF kind = "campaign" THEN "amount_spent_usd" ELSE "audience"

\* columns and types of CREATE TABLE IF NOT EXISTS for each destination
DeclaredType(kind, c) ==
    IF kind = "campaign"
    THEN CASE c = "ad_name" -> "STRING"
           [] c = "ad_set_name" -> "STRING"
           [] c = "amount_spent_usd" -> "FLOAT"
           [] c = "wave_number" -> "INT"
           [] c = "upload_timestamp" -> "TIMESTAMP"
           [] c = "campaign_name" -> "STRING"
           [] c = "ends" -> "DATETIME"
           [] c = "bid" -> "FLOAT"
           [] c = "reach" -> "INT"
           [] OTHER -> Absent
    ELSE CASE c = "ad_set_name" -> "STRING"
           [] c = "audience" -> "STRING"
           [] c = "wave_number" -> "INT"
           [] c = "upload_timestamp" -> "TIMESTAMP"
           [] OTHER -> Absent

\* pandas dtype of a DataFrame column handed to the upsert
Dtype(c) ==
    CASE c = "wave_number" -> "int64"
      [] c = "upload_timestamp" -> "datetime64"
      [] c = "amount_spent_usd" -> "float64"
      [] c = NewColumn -> "float64"
      [] OTHER -> "object"

\* keys and data values of the delta-load scenario: Ad1 is loaded with 100
\* and reloaded with 250, its sibling Ad2 is loaded with 200
KeyValues == {"Ad1", "Ad2"}
DataValues == {"100", "250", "200"}
ScenarioRows == {<<"Ad1", "100">>, <<"Ad1", "250">>, <<"Ad2", "200">>}

\* a behaviour is an initial load followed by at most one delta load
NextRound(r) == IF r = "none" THEN "initial" ELSE "delta"
NumericValues == DataValues \cup Waves \cup {NewValue}
IntegralValues == DataValues \cup Waves
DateValues == {}

EmptyRow == [c \in Columns |-> NULL]

\* an input row: key and one data cell; the other cells are filled by the call
InputRow(kind, k, d) ==
    [EmptyRow EXCEPT ![KeyColumn(kind)] = k, ![DataColumn(kind)] = d]

InputRows(kind) == {InputRow(kind, kd[1], kd[2]) : kd \in ScenarioRows}

\* bags of at most n rows drawn from S (n >= 1), at least one row
RECURSIVE BagsUpTo(_, _)
BagsUpTo(S, n) ==
    IF n = 0 THEN {EmptyBag}
    ELSE LET smaller == BagsUpTo(S, n - 1)
         IN  smaller \cup {b (+) SetToBag({r}) : b \in smaller, r \in S}

InputBags(kind) == BagsUpTo(InputRows(kind), MaxDfRows) \ {EmptyBag}

\* ------------------------------------------------------------ bag helpers
\* the bag obtained by applying f to every row of b (copies add up)
RECURSIVE SumCopies(_, _, _, _)
SumCopies(b, f(_), target, todo) ==
    IF todo = {} THEN 0
    ELSE LET r == CHOOSE x \in todo : TRUE
         IN  (IF f(r) = target THEN CopiesIn(r, b) ELSE 0)
             + SumCopies(b, f, target, todo \ {r})

MapBag(b, f(_)) ==
    LET img == {f(r) : r \in BagToSet(b)}
    IN  [x \in img |-> SumCopies(b, f, x, BagToSet(b))]

\* the rows of b that satisfy P, with their copies
FilterBag(b, P(_)) ==
    LET keep == {r \in BagToSet(b) : P(r)}
    IN  [x \in keep |-> CopiesIn(x, b)]

\* number of rows of b that satisfy P
CountRows(b, P(_)) == BagCardinality(FilterBag(b, P))

\* --------------------------------------------------- snowflake_operations
\* the policy threshold 0.8 of the type inference, as the ratio 4/5
ThresholdNum == 4
ThresholdDen == 5

\* infer_snowflake_type: dtype is the pandas dtype, values the bag of cells
infer_snowflake_type(dtype, values) ==
    LET non_null == FilterBag(values, LAMBDA v : v # NULL)
        total == BagCardinality(non_null)
        numeric == CountRows(non_null, LAMBDA v : v \in NumericValues)
        integral == CountRows(non_null, LAMBDA v : v \in IntegralValues)
        dates == CountRows(non_null, LAMBDA v : v \in DateValues)
    IN  CASE dtype = "datetime64" -> "TIMESTAMP"
          [] dtype = "int64" -> "INTEGER"
          [] dtype = "float64" -> "FLOAT"
          [] dtype = "bool" -> "BOOLEAN"
          [] OTHER ->
               IF total = 0 THEN "STRING"
               ELSE IF numeric * ThresholdDen > ThresholdNum * total
                    THEN (IF integral = numeric THEN "INTEGER" ELSE "FLOAT")
               ELSE IF dates * ThresholdDen > ThresholdNum * total
                    THEN "TIMESTAMP"
               ELSE "STRING"

\* the cells of column c of a table, as a bag
ColumnValues(rows, c) == MapBag(rows, LAMBDA r : r[c])

\* get_table_columns: the lowercase column names DESCRIBE TABLE returns, or
\* the empty set when the statement raised (the exception is logged only)
get_table_columns(schema, describeOk) ==
    IF describeOk THEN {c \in Columns : schema[c] # Absent} ELSE {}

\* expand_table_schema: new_columns = df_columns - existing - excluded
new_columns(df_columns, existing_columns, exclude_columns) ==
    (df_columns \ existing_columns) \ exclude_columns

\* df[original_col].dtype: the dtype the preprocessing left, or the dtype of
\* the column of a table built by hand
ColumnDtype(df, c) ==
    IF "dtype" \in DOMAIN df THEN df.dtype[c] ELSE Dtype(c)

\* variant: ALTER TABLE ... ADD COLUMN that reports success and adds nothing
add_columns_lost(schema, added, df) == schema

\* the destination schema after the ALTER TABLE ... ADD COLUMN statements
\* that succeeded (added), each with the type inferred from the table
add_columns(schema, added, df) ==
    [c \in Columns |->
        IF c \in added
        THEN infer_snowflake_type(ColumnDtype(df, c), ColumnValues(df.rows, c))
        ELSE schema[c]]

\* variant: with no introspected column every input column is kept
filtered_columns_unchecked(df_columns, existing_columns) ==
    IF existing_columns = {} THEN df_columns ELSE df_columns \cap existing_columns

\* variant: every input column is written, in the destination or not
filtered_columns_all(df_columns, existing_columns) == df_columns

\* filtered_columns = [col for col in df.columns if col.lower() in existing]
filtered_columns(df_columns, existing_columns) == df_columns \cap existing_columns

\* missing_for_upload = the input columns the destination does not have
missing_for_upload(df_columns, existing_columns) == df_columns \ existing_columns

\* a row restricted to cols (df[filtered_columns]; INSERT column list)
Project(r, cols) == [c \in Columns |-> IF c \in cols THEN r[c] ELSE NULL]

\* df_filtered = df[filtered_columns].copy()
df_filtered(df, cols) ==
    [columns |-> cols, rows |-> MapBag(df.rows, LAMBDA r : Project(r, cols))]

\* update_columns = [col for col in all_columns if col.lower() != key]
update_columns(all_columns, key) == all_columns \ {key}

\* source rows joined to target row t by ON target.key = source."key"
Matches(t, source, key) ==
    FilterBag(source, LAMBDA s : s[key] # NULL /\ s[key] = t[key])

\* MERGE raises when a target row is matched by more than one source row
merge_nondeterministic(target, source, key) ==
    \E t \in BagToSet(target) : BagCardinality(Matches(t, source, key)) > 1

\* WHEN MATCHED THEN UPDATE SET col = source."col" for every update column
merge_update(t, source, key, all_columns) ==
    LET m == BagToSet(Matches(t, source, key))
    IN  IF m = {} THEN t
        ELSE LET s == CHOOSE x \in m : TRUE
             IN  [c \in Columns |->
                    IF c \in update_columns(all_columns, key) THEN s[c] ELSE t[c]]

\* variant: INSERT of every source row, matched or not
merge_insert_all(target, source, key, all_columns) ==
    MapBag(source, LAMBDA s : Project(s, all_columns))

\* WHEN NOT MATCHED THEN INSERT (all_columns) VALUES (source."col", ...)
merge_insert(target, source, key, all_columns) ==
    MapBag(FilterBag(source,
                     LAMBDA s : \A t \in BagToSet(target) :
                                   s[key] = NULL \/ s[key] # t[key]),
           LAMBDA s : Project(s, all_columns))

\* the destination rows after a MERGE that did not raise
merge_rows(target, source, key, all_columns) ==
    MapBag(target, LAMBDA t : merge_update(t, source, key, all_columns))
        (+) merge_insert(target, source, key, all_columns)

\* ------------------------------------------------------------------ state
VARIABLES
    now,        \* the wall clock read by datetime.now()
    created,    \* schema objects that exist: schema, stage, the tables, log
    colType,    \* colType[kind][c]: type of column c of the destination, or Absent
    rows,       \* rows[kind]: the bag of rows of the destination table
    temp,       \* temp[<<kind, wave>>]: the temporary table of that name
    view,       \* TRUE when the joined view exists
    log,        \* the rows of PROCESSING_LOG, in insertion order
    calls,      \* the round of the last upsert invocation started
    inv,        \* inv[p]: the upsert invocation of process p
    flow,       \* the upload_to_snowflake invocation
    call        \* the call of a single function under examination, or NoCall

vars == <<now, created, colType, rows, temp, view, log, calls, inv, flow, call>>

\* no single function is being examined
NoCall == [fn |-> "none"]

execution_order == <<"schema", "stage", "naming", "campaign", "log">>

TempNames == Kinds \X Waves

EmptyDf == [columns |-> {}, rows |-> EmptyBag]

IdleInv ==
    [pc |-> "idle", caller |-> "none", kind |-> "naming", wave |-> "1",
     df |-> EmptyDf, pre |-> EmptyBag, preCols |-> {},
     expand |-> [ok |-> FALSE, new |-> {}, added |-> {}],
     existing |-> {}, all_columns |-> {}, warning |-> FALSE,
     staged |-> FALSE, mergeRaised |-> FALSE, drop |-> "none",
     faults |-> {}, issued |-> <<>>, result |-> "none", msg |-> "none",
     repeat |-> FALSE, preTemp |-> NoTable]

IdleFlow ==
    [pc |-> "idle", wave |-> "1", naming_df |-> EmptyDf, campaign_df |-> EmptyDf,
     errors_count |-> 0, warnings_count |-> 0,
     attempted |-> {}, failed |-> {}, result |-> "none"]

\* the warehouse before any engine call, nothing in progress
WarehouseInit ==
    /\ now = 0
    /\ created = {}
    /\ colType = [k \in Kinds |-> [c \in Columns |-> Absent]]
    /\ rows = [k \in Kinds |-> EmptyBag]
    /\ temp = [n \in TempNames |-> NoTable]
    /\ view = FALSE
    /\ log = <<>>
    /\ calls = "none"
    /\ inv = [p \in Procs |-> IdleInv]
    /\ flow = IdleFlow

Init == WarehouseInit /\ call = NoCall

\* the input table of one upsert: key, data and wave_number columns, and
\* the new column when hasNew
InputTable(kind, wave, hasNew, bag) ==
    [columns |-> {KeyColumn(kind), DataColumn(kind), "wave_number"}
                    \cup (IF hasNew THEN {NewColumn} ELSE {}),
     rows |-> MapBag(bag, LAMBDA r :
                 [r EXCEPT !["wave_number"] = wave,
                           ![NewColumn] = IF hasNew THEN NewValue ELSE NULL])]

\* ---------------------------------------------- create_schema_and_tables
\* the warehouse after the first n statements of execution_order succeeded;
\* CREATE ... IF NOT EXISTS leaves an existing object as it is
create_objects(n) == {execution_order[i] : i \in 1..n}

\* variant: CREATE OR REPLACE TABLE, which rebuilds an existing table
create_or_replace_tables(n) ==
    [k \in Kinds |->
        IF k \in create_objects(n)
        THEN [c \in Columns |-> DeclaredType(k, c)]
        ELSE colType[k]]

create_tables(n) ==
    [k \in Kinds |->
        IF k \in create_objects(n) /\ k \notin created
        THEN [c \in Columns |-> DeclaredType(k, c)]
        ELSE colType[k]]

\* no upload_to_snowflake was started and no upsert is in progress
Quiet == /\ flow.pc = "idle"
         /\ \A p \in Procs : inv[p].pc \in {"idle", "done"}

create_schema_and_tables ==
    /\ Quiet
    /\ \E n \in 0..Len(execution_order) :
          /\ created' = created \cup create_objects(n)
          /\ colType' = create_tables(n)
    /\ UNCHANGED <<call, now, rows, temp, view, log, calls, inv, flow>>

\* ------------------------------- populate_naming_keys_table / campaign
\* lines 485-502: wave_number is added when the input lacks it, and every
\* row gets upload_timestamp = datetime.now()
call_columns(df, wave, t) ==
    [df EXCEPT
       !.columns = @ \cup {"wave_number", "upload_timestamp"},
       !.rows = MapBag(@, LAMBDA r :
                 [r EXCEPT !["wave_number"] =
                               IF "wave_number" \in df.columns THEN @ ELSE wave,
                           !["upload_timestamp"] = ToString(t)])]

\* the table handed to this call is the one the previous call of p, which
\* succeeded, was given for the same destination and wave
SameTableAgain(p, kind, wave, df) ==
    /\ inv[p].pc = "done" /\ inv[p].result = "ok"
    /\ inv[p].kind = kind /\ inv[p].wave = wave
    /\ inv[p].df.columns = df.columns \cup {"wave_number", "upload_timestamp"}
    /\ inv[p].df.rows = call_columns(df, wave, now).rows

StartUpsert(p, caller, kind, wave, df, t) ==
    /\ calls # "delta"
    /\ calls' = NextRound(calls)
    /\ now' = t
    /\ inv' = [inv EXCEPT ![p] =
                 [IdleInv EXCEPT !.pc = "expand", !.caller = caller,
                                 !.kind = kind, !.wave = wave,
                                 !.df = call_columns(df, wave, t),
                                 !.pre = rows[kind],
                                 !.preCols = get_table_columns(colType[kind], TRUE),
                                 !.repeat = SameTableAgain(p, kind, wave, df),
                                 !.preTemp = temp[<<kind, wave>>]]]

\* a direct call, as the integration tests make it: the fixture has created
\* the schema, and the delta load goes to the table of the initial load
CallUpsert(p) ==
    /\ Quiet
    /\ created = create_objects(Len(execution_order))
    /\ \E kind \in Kinds, wave \in Waves, hasNew \in BOOLEAN :
          /\ calls = "initial" => kind = inv[p].kind
          /\ \E bag \in InputBags(kind) :
                StartUpsert(p, "direct", kind, wave,
                            InputTable(kind, wave, hasNew, bag), now + 1)
    /\ UNCHANGED <<call, created, colType, rows, temp, view, log, flow>>

Issue(p, statements) == inv[p].issued \o statements

\* a sequence of n copies of x
Copies(x, n) == [i \in 1..n |-> x]

\* expand_table_schema(full_table_name_for_schema, df, conn, {upload_timestamp})
expand_table_schema(p) ==
    LET i == inv[p] IN
    /\ i.pc = "expand"
    /\ \E describeOk \in BOOLEAN :
          /\ describeOk => i.kind \in created
          /\ LET existing_columns == get_table_columns(colType[i.kind], describeOk)
                 new == new_columns(i.df.columns, existing_columns, {"upload_timestamp"})
             IN  IF existing_columns = {}
                 THEN /\ inv' = [inv EXCEPT ![p].pc = "refresh",
                                    ![p].expand = [ok |-> FALSE, new |-> {}, added |-> {}],
                                    ![p].faults = @ \cup {"describe"},
                                    ![p].issued = Issue(p, <<"DESCRIBE">>)]
                      /\ UNCHANGED colType
                 ELSE \E added \in SUBSET new :
                      /\ colType' = [colType EXCEPT ![i.kind] = add_columns(@, added, i.df)]
                      /\ inv' = [inv EXCEPT ![p].pc = "refresh",
                                    ![p].expand = [ok |-> TRUE, new |-> new, added |-> added],
                                    ![p].faults = IF added = new THEN @ ELSE @ \cup {"alter"},
                                    ![p].issued = Issue(p, <<"DESCRIBE">>
                                                     \o Copies("ALTER", Cardinality(new)))]
    /\ UNCHANGED <<call, now, created, rows, temp, view, log, calls, flow>>

\* variant: an empty intersection does not end the upsert
refresh_columns_goes_on(p) ==
    LET i == inv[p] IN
    /\ i.pc = "refresh"
    /\ \E describeOk \in BOOLEAN :
          /\ describeOk => i.kind \in created
          /\ LET existing_columns == get_table_columns(colType[i.kind], describeOk)
                 missing == missing_for_upload(i.df.columns, existing_columns)
             IN  inv' = [inv EXCEPT
                           ![p].existing = existing_columns,
                           ![p].all_columns =
                               filtered_columns(i.df.columns, existing_columns),
                           ![p].warning = (missing # {}),
                           ![p].faults = IF describeOk THEN @
                                         ELSE @ \cup {"describe_refresh"},
                           ![p].issued = Issue(p, <<"DESCRIBE">>),
                           ![p].pc = "current_db"]
    /\ UNCHANGED <<call, now, created, colType, rows, temp, view, log, calls, flow>>

\* lines 518-536: re-introspection and the column intersection
refresh_columns(p) ==
    LET i == inv[p] IN
    /\ i.pc = "refresh"
    /\ \E describeOk \in BOOLEAN :
          /\ describeOk => i.kind \in created
          /\ LET existing_columns == get_table_columns(colType[i.kind], describeOk)
                 filtered == filtered_columns(i.df.columns, existing_columns)
                 missing == missing_for_upload(i.df.columns, existing_columns)
                 seen == [inv EXCEPT ![p].existing = existing_columns,
                                     ![p].all_columns = filtered,
                                     ![p].warning = (missing # {}),
                                     ![p].faults = IF describeOk THEN @
                                                   ELSE @ \cup {"describe_refresh"},
                                     ![p].issued = Issue(p, <<"DESCRIBE">>)]
             IN  inv' = IF filtered = {}
                        THEN [seen EXCEPT ![p].pc = "done", ![p].result = "fail",
                                          ![p].msg = "No matching columns"]
                        ELSE [seen EXCEPT ![p].pc = "current_db"]
    /\ UNCHANGED <<call, now, created, colType, rows, temp, view, log, calls, flow>>

\* variant: a failed SELECT CURRENT_DATABASE() is ignored
current_database_ignored(p) ==
    LET i == inv[p] IN
    /\ i.pc = "current_db"
    /\ \E ok \in BOOLEAN :
          inv' = [inv EXCEPT ![p].pc = "stage",
                             ![p].faults = IF ok THEN @ ELSE @ \cup {"current_db"},
                             ![p].issued = Issue(p, <<"CURRENT_DATABASE">>)]
    /\ UNCHANGED <<call, now, created, colType, rows, temp, view, log, calls, flow>>

\* lines 541-543: SELECT CURRENT_DATABASE()
current_database(p) ==
    LET i == inv[p] IN
    /\ i.pc = "current_db"
    /\ \E ok \in BOOLEAN :
          inv' = IF ok
                 THEN [inv EXCEPT ![p].pc = "stage",
                                  ![p].issued = Issue(p, <<"CURRENT_DATABASE">>)]
                 ELSE [inv EXCEPT ![p].pc = "done", ![p].result = "fail",
                                  ![p].msg = "Error: CURRENT_DATABASE",
                                  ![p].faults = @ \cup {"current_db"},
                                  ![p].issued = Issue(p, <<"CURRENT_DATABASE">>)]
    /\ UNCHANGED <<call, now, created, colType, rows, temp, view, log, calls, flow>>

\* lines 550-552: create_dataframe(df_filtered).write.save_as_table(temp, overwrite)
save_as_table(p) ==
    LET i == inv[p] IN
    /\ i.pc = "stage"
    /\ \E ok \in BOOLEAN :
          IF ok
          THEN /\ temp' = [temp EXCEPT ![<<i.kind, i.wave>>] =
                             [columns |-> i.all_columns,
                              rows |-> df_filtered(i.df, i.all_columns).rows,
                              exists |-> TRUE]]
               /\ inv' = [inv EXCEPT ![p].pc = "merge", ![p].staged = TRUE,
                                     ![p].issued = Issue(p, <<"SAVE_AS_TABLE">>)]
          ELSE /\ UNCHANGED temp
               /\ inv' = [inv EXCEPT ![p].pc = "done", ![p].result = "fail",
                                     ![p].msg = "Error: SAVE_AS_TABLE",
                                     ![p].faults = @ \cup {"stage"},
                                     ![p].issued = Issue(p, <<"SAVE_AS_TABLE">>)]
    /\ UNCHANGED <<call, now, created, colType, rows, view, log, calls, flow>>

\* lines 566-584: the MERGE statement, in the try block
execute_merge(p) ==
    LET i == inv[p]
        source == temp[<<i.kind, i.wave>>]
        key == KeyColumn(i.kind)
    IN
    /\ i.pc = "merge"
    /\ \E fault \in BOOLEAN :
          LET raised == \/ fault
                        \/ ~source.exists
                        \/ merge_nondeterministic(rows[i.kind], source.rows, key)
          IN  /\ rows' = IF raised THEN rows
                         ELSE [rows EXCEPT ![i.kind] =
                                 merge_rows(@, source.rows, key, i.all_columns)]
              /\ inv' = [inv EXCEPT ![p].pc = "drop", ![p].mergeRaised = raised,
                                    ![p].faults = IF raised THEN @ \cup {"merge"} ELSE @,
                                    ![p].issued = Issue(p, <<"MERGE">>)]
    /\ UNCHANGED <<call, now, created, colType, temp, view, log, calls, flow>>

\* variant: the exception of the MERGE is swallowed
merge_outcome_swallowed(raised, warning) ==
    [result |-> "ok", msg |-> IF warning THEN "Inserted/Updated | warning"
                              ELSE "Inserted/Updated"]

\* the (success, message) the invocation returns after the finally block
merge_outcome(raised, warning) ==
    IF raised THEN [result |-> "fail", msg |-> "Error: MERGE"]
    ELSE [result |-> "ok", msg |-> IF warning THEN "Inserted/Updated | warning"
                                   ELSE "Inserted/Updated"]

\* variant: the drop follows the MERGE in the try block, without finally
drop_temp_table_no_finally(p) ==
    LET i == inv[p]
        out == merge_outcome(i.mergeRaised, i.warning)
    IN
    /\ i.pc = "drop"
    /\ \E ok \in BOOLEAN :
          /\ temp' = IF ok /\ ~i.mergeRaised
                     THEN [temp EXCEPT ![<<i.kind, i.wave>>] = NoTable] ELSE temp
          /\ inv' = [inv EXCEPT ![p].pc = "done",
                                ![p].drop = IF i.mergeRaised THEN "none"
                                            ELSE IF ok THEN "ok" ELSE "failed",
                                ![p].issued = IF i.mergeRaised THEN @
                                              ELSE Issue(p, <<"DROP">>),
                                ![p].result = out.result, ![p].msg = out.msg]
    /\ UNCHANGED <<call, now, created, colType, rows, view, log, calls, flow>>

\* variant: an exception of the DROP leaves the finally block
drop_temp_table_raises(p) ==
    LET i == inv[p]
        out == merge_outcome(i.mergeRaised, i.warning)
    IN
    /\ i.pc = "drop"
    /\ \E ok \in BOOLEAN :
          /\ temp' = IF ok THEN [temp EXCEPT ![<<i.kind, i.wave>>] = NoTable] ELSE temp
          /\ inv' = [inv EXCEPT ![p].pc = "done",
                                ![p].drop = IF ok THEN "ok" ELSE "failed",
                                ![p].faults = IF ok THEN @ ELSE @ \cup {"drop"},
                                ![p].issued = Issue(p, <<"DROP">>),
                                ![p].result = IF ok THEN out.result ELSE "fail",
                                ![p].msg = IF ok THEN out.msg ELSE "Error: DROP"]
    /\ UNCHANGED <<call, now, created, colType, rows, view, log, calls, flow>>

\* lines 585-606: DROP TABLE IF EXISTS in the finally block, then the return
drop_temp_table(p) ==
    LET i == inv[p]
        out == merge_outcome(i.mergeRaised, i.warning)
    IN
    /\ i.pc = "drop"
    /\ \E ok \in BOOLEAN :
          /\ temp' = IF ok THEN [temp EXCEPT ![<<i.kind, i.wave>>] = NoTable] ELSE temp
          /\ inv' = [inv EXCEPT ![p].pc = "done",
                                ![p].drop = IF ok THEN "ok" ELSE "failed",
                                ![p].faults = IF ok THEN @ ELSE @ \cup {"drop"},
                                ![p].issued = Issue(p, <<"DROP">>),
                                ![p].result = out.result, ![p].msg = out.msg]
    /\ UNCHANGED <<call, now, created, colType, rows, view, log, calls, flow>>

\* ------------------------------------------------------- data_processor
\* processed_df.drop_duplicates(): one copy of every full row
drop_duplicates(table_rows) == SetToBag(BagToSet(table_rows))

\* preprocess_campaign_data / preprocess_naming_data on typed rows: the
\* wave_number column is assigned, then exact duplicates are removed
preprocess(raw, wave_number) ==
    [columns |-> raw.columns \cup {"wave_number"},
     rows |-> drop_duplicates(
                MapBag(raw.rows, LAMBDA r : [r EXCEPT !["wave_number"] = wave_number]))]

\* a raw input table: key and data columns, and the new column when hasNew
RawTable(kind, hasNew, bag) ==
    [columns |-> {KeyColumn(kind), DataColumn(kind)}
                    \cup (IF hasNew THEN {NewColumn} ELSE {}),
     rows |-> MapBag(bag, LAMBDA r :
                 [r EXCEPT ![NewColumn] = IF hasNew THEN NewValue ELSE NULL])]

\* ---------------------------------------------------- upload_to_snowflake
\* process_files hands the two preprocessed tables to upload_to_snowflake,
\* whose step 1 is create_schema_and_tables
upload_create_schema ==
    /\ Quiet /\ calls = "none"
    /\ \E wave \in Waves, newN \in BOOLEAN, newC \in BOOLEAN :
       \E bagN \in InputBags("naming"), bagC \in InputBags("campaign") :
       \E n \in 0..Len(execution_order) :
          /\ created' = created \cup create_objects(n)
          /\ colType' = create_tables(n)
          /\ flow' = [IdleFlow EXCEPT
                        !.wave = wave,
                        !.naming_df = preprocess(RawTable("naming", newN, bagN), wave),
                        !.campaign_df = preprocess(RawTable("campaign", newC, bagC), wave),
                        !.attempted = {"schema"},
                        !.errors_count = IF n < Len(execution_order) THEN 1 ELSE 0,
                        !.failed = IF n < Len(execution_order) THEN {"schema"} ELSE {},
                        !.result = IF n < Len(execution_order) THEN "fail" ELSE "none",
                        !.pc = IF n < Len(execution_order) THEN "done"
                               ELSE "stage_campaign"]
    /\ UNCHANGED <<call, now, rows, temp, view, log, calls, inv>>

\* step 2: upload_csv_to_stage for each file; a failure is a warning only
upload_csv_to_stage ==
    /\ flow.pc \in {"stage_campaign", "stage_naming"}
    /\ \E ok \in BOOLEAN :
          flow' = [flow EXCEPT
                     !.pc = IF flow.pc = "stage_campaign" THEN "stage_naming"
                            ELSE "naming",
                     !.warnings_count = IF ok THEN @ ELSE @ + 1]
    /\ UNCHANGED <<call, now, created, colType, rows, temp, view, log, calls, inv>>

\* steps 3 and 4: the call of populate_naming_keys_table, then of
\* populate_campaign_data_table
upload_call_upsert(p) ==
    /\ flow.pc \in {"naming", "campaign"}
    /\ inv[p].pc \in {"idle", "done"}
    /\ StartUpsert(p, "flow", flow.pc, flow.wave,
                   IF flow.pc = "naming" THEN flow.naming_df ELSE flow.campaign_df,
                   now + 1)
    /\ flow' = [flow EXCEPT !.pc = IF flow.pc = "naming" THEN "naming_result"
                                   ELSE "campaign_result",
                            !.attempted = @ \cup {flow.pc}]
    /\ UNCHANGED <<call, created, colType, rows, temp, view, log>>

\* variant: a failed upsert is counted and the next step is taken
upload_after_upsert_continue(p) ==
    LET step == IF flow.pc = "naming_result" THEN "naming" ELSE "campaign" IN
    /\ flow.pc \in {"naming_result", "campaign_result"}
    /\ inv[p].pc = "done"
    /\ flow' = [flow EXCEPT !.pc = IF step = "naming" THEN "campaign" ELSE "view",
                            !.errors_count = IF inv[p].result = "fail" THEN @ + 1 ELSE @,
                            !.failed = IF inv[p].result = "fail"
                                       THEN @ \cup {step} ELSE @]
    /\ UNCHANGED <<call, now, created, colType, rows, temp, view, log, calls, inv>>

\* if not naming_success / if not campaign_success: count the error, return
upload_after_upsert(p) ==
    LET step == IF flow.pc = "naming_result" THEN "naming" ELSE "campaign" IN
    /\ flow.pc \in {"naming_result", "campaign_result"}
    /\ inv[p].pc = "done"
    /\ flow' = IF inv[p].result = "fail"
               THEN [flow EXCEPT !.pc = "done", !.result = "fail",
                                 !.errors_count = @ + 1,
                                 !.failed = @ \cup {step}]
               ELSE [flow EXCEPT !.pc = IF step = "naming" THEN "campaign" ELSE "view"]
    /\ UNCHANGED <<call, now, created, colType, rows, temp, view, log, calls, inv>>

\* variant: a failed view creation ends the upload with a failure
create_audience_ad_descriptor_view_fatal ==
    /\ flow.pc = "view"
    /\ \E ok \in BOOLEAN :
          /\ ok => Kinds \subseteq created
          /\ view' = (view \/ ok)
          /\ flow' = IF ok
                     THEN [flow EXCEPT !.pc = "log", !.attempted = @ \cup {"view"}]
                     ELSE [flow EXCEPT !.pc = "done", !.result = "fail",
                                       !.attempted = @ \cup {"view"},
                                       !.errors_count = @ + 1,
                                       !.failed = @ \cup {"view"}]
    /\ UNCHANGED <<call, now, created, colType, rows, temp, log, calls, inv>>

\* step 5: create_audience_ad_descriptor_view (CREATE OR REPLACE VIEW)
create_audience_ad_descriptor_view ==
    /\ flow.pc = "view"
    /\ \E ok \in BOOLEAN :
          /\ ok => Kinds \subseteq created
          /\ view' = (view \/ ok)
          /\ flow' = [flow EXCEPT !.pc = "log",
                                  !.attempted = @ \cup {"view"},
                                  !.errors_count = IF ok THEN @ ELSE @ + 1,
                                  !.failed = IF ok THEN @ ELSE @ \cup {"view"}]
    /\ UNCHANGED <<call, now, created, colType, rows, temp, log, calls, inv>>

\* step 6: insert_processing_log(..., 'SUCCESS', ...), then return True
insert_processing_log ==
    /\ flow.pc = "log"
    /\ \E ok \in BOOLEAN :
          /\ ok => "log" \in created
          /\ log' = IF ok
                    THEN Append(log, [status |-> "SUCCESS", wave_number |-> flow.wave,
                                      errors_count |-> flow.errors_count,
                                      warnings_count |-> flow.warnings_count])
                    ELSE log
          /\ flow' = [flow EXCEPT !.pc = "done", !.result = "ok",
                                  !.attempted = @ \cup {"log"},
                                  !.failed = IF ok THEN @ ELSE @ \cup {"log"}]
    /\ UNCHANGED <<call, now, created, colType, rows, temp, view, calls, inv>>

upload_to_snowflake(p) ==
    \/ upload_create_schema
    \/ upload_csv_to_stage
    \/ upload_call_upsert(p)
    \/ upload_after_upsert(p)
    \/ create_audience_ad_descriptor_view
    \/ insert_processing_log

Upsert(p) ==
    \/ expand_table_schema(p)
    \/ refresh_columns(p)
    \/ current_database(p)
    \/ save_as_table(p)
    \/ execute_merge(p)
    \/ drop_temp_table(p)

Next ==
    \/ create_schema_and_tables
    \/ \E p \in Procs : CallUpsert(p)
    \/ \E p \in Procs : Upsert(p)
    \/ \E p \in Procs : upload_to_snowflake(p)

Spec == Init /\ [][Next]_vars

\* ================================================================ claims
\* the invocation of p has returned
Returned(p) == inv[p].pc = "done"
Succeeded(p) == Returned(p) /\ inv[p].result = "ok"

\* the rows of a table whose key is k
RowsOfKey(table_rows, kind, k) ==
    FilterBag(table_rows, LAMBDA r : r[KeyColumn(kind)] = k)

\* the key values that occur in a table
KeysOf(table_rows, kind) == {r[KeyColumn(kind)] : r \in BagToSet(table_rows)}

\* a table with the upload_timestamp cells blanked
EraseTimestamp(table_rows) ==
    MapBag(table_rows, LAMBDA r : [r EXCEPT !["upload_timestamp"] = NULL])

\* the rows of the destination that the invocation did not write are as
\* they were when it was called
UnwrittenRowsUnchanged(p) ==
    LET i == inv[p] IN
    \A r \in BagToSet(i.pre) \cup BagToSet(rows[i.kind]) :
        r[KeyColumn(i.kind)] \notin KeysOf(i.df.rows, i.kind)
            => CopiesIn(r, rows[i.kind]) = CopiesIn(r, i.pre)

\* every destination row with a key of the input carries, in the columns the
\* call wrote, the values of an input row with that key
WrittenRowsCarryInput(p) ==
    LET i == inv[p] IN
    \A r \in BagToSet(rows[i.kind]) :
        r[KeyColumn(i.kind)] \in KeysOf(i.df.rows, i.kind)
            => \E s \in BagToSet(i.df.rows) :
                  /\ s[KeyColumn(i.kind)] = r[KeyColumn(i.kind)]
                  /\ \A c \in i.all_columns : r[c] = s[c]

DeltaLoadOverrides(p) ==
    LET i == inv[p] IN
    /\ \A k \in KeysOf(i.df.rows, i.kind) \cap KeysOf(i.pre, i.kind) :
          BagCardinality(RowsOfKey(rows[i.kind], i.kind, k)) = 1
    /\ WrittenRowsCarryInput(p)
    /\ UnwrittenRowsUnchanged(p)

\* C1: after a successful upsert whose input has a key that already existed
\* in the destination, the destination holds exactly one row for that key,
\* the written columns carry the values of this call, and the rows of the
\* other keys are unchanged.
C1_DeltaLoadOverrides ==
    \A p \in Procs : Succeeded(p) => DeltaLoadOverrides(p)

\* C2: in every state reached through preprocess and upsert invocations the
\* destination holds at most one row per merge-key value.
C2_OneRowPerKey ==
    flow.pc # "idle" =>
        \A kind \in Kinds : \A k \in KeyValues :
            BagCardinality(RowsOfKey(rows[kind], kind, k)) <= 1

\* the destination had one row per key when p was called
PreUnique(p) ==
    \A k \in KeyValues :
        BagCardinality(RowsOfKey(inv[p].pre, inv[p].kind, k)) <= 1

C1_IfKeysWereUnique ==
    \A p \in Procs : (Succeeded(p) /\ PreUnique(p)) => DeltaLoadOverrides(p)

\* both calls of a repeated upsert succeeded and the second one found the
\* destination columns the first one left and changed none
RepeatedUpsert(p) ==
    /\ Succeeded(p)
    /\ inv[p].repeat
    /\ get_table_columns(colType[inv[p].kind], TRUE) = inv[p].preCols

\* C3 as stated: a second upsert of the same processed table leaves the
\* destination as the first one left it, in every column.
C3_IdempotentEveryColumn ==
    \A p \in Procs : RepeatedUpsert(p) => rows[inv[p].kind] = inv[p].pre

\* C3 as amended: a second successful upsert of the same processed table
\* leaves the same rows with the same value in every column other than
\* upload_timestamp, which takes the time of the second call in every row
\* the call wrote.
C3_IdempotentButTimestamp ==
    \A p \in Procs :
        RepeatedUpsert(p) =>
            LET i == inv[p] IN
            /\ EraseTimestamp(rows[i.kind]) = EraseTimestamp(i.pre)
            /\ \A r \in BagToSet(rows[i.kind]) :
                  r[KeyColumn(i.kind)] \in KeysOf(i.df.rows, i.kind)
                      => r["upload_timestamp"] = ToString(now)

C3_Witness ==
    \E p \in Procs : RepeatedUpsert(p) /\ rows[inv[p].kind] # EmptyBag

\* the invocation found NewColumn missing from the destination and every
\* ALTER TABLE ... ADD COLUMN it issued succeeded
ColumnAdded(p) ==
    /\ Returned(p)
    /\ inv[p].expand.ok
    /\ NewColumn \in inv[p].expand.new
    /\ inv[p].expand.added = inv[p].expand.new

\* C4: when the input has a column the destination lacks and every column
\* add succeeds, the column exists after the call, the rows written by the
\* call hold the supplied value in it, and every row the call did not write
\* has NULL in it and is otherwise unchanged.
C4_SchemaEvolution ==
    \A p \in Procs :
        ColumnAdded(p) =>
            LET i == inv[p] IN
            /\ colType[i.kind][NewColumn] # Absent
            /\ Succeeded(p) =>
                  \A r \in BagToSet(rows[i.kind]) :
                      r[KeyColumn(i.kind)] \in KeysOf(i.df.rows, i.kind)
                          => r[NewColumn] = NewValue
            /\ UnwrittenRowsUnchanged(p)
            /\ \A r \in BagToSet(rows[i.kind]) :
                  r[KeyColumn(i.kind)] \notin KeysOf(i.df.rows, i.kind)
                      => r[NewColumn] = NULL

C4_Witness ==
    \E p \in Procs :
        /\ ColumnAdded(p) /\ Succeeded(p)
        /\ \E r \in BagToSet(rows[inv[p].kind]) : r[NewColumn] = NewValue
        /\ \E r \in BagToSet(rows[inv[p].kind]) :
              /\ r[KeyColumn(inv[p].kind)] \notin KeysOf(inv[p].df.rows, inv[p].kind)
              /\ CopiesIn(r, inv[p].pre) > 0

\* statement m was issued by p after statement n
IssuedAfter(p, first, second) ==
    LET s == inv[p].issued IN
    \A n \in DOMAIN s :
        s[n] = first => \E m \in DOMAIN s : m > n /\ s[m] = second

WasIssued(p, statement) ==
    \E n \in DOMAIN inv[p].issued : inv[p].issued[n] = statement

\* C5: in every invocation that executes the MERGE, DROP TABLE IF EXISTS on
\* the temporary table is attempted after the MERGE, whether the MERGE
\* succeeded or raised, and when the drop succeeds the temporary table does
\* not exist when the invocation returns.
C5_DropAfterMerge ==
    \A p \in Procs :
        (Returned(p) /\ WasIssued(p, "MERGE")) =>
            /\ IssuedAfter(p, "MERGE", "DROP")
            /\ inv[p].drop # "none"
            /\ inv[p].drop = "ok" => ~temp[<<inv[p].kind, inv[p].wave>>].exists

C5_Witness ==
    \E p \in Procs :
        /\ Returned(p) /\ inv[p].staged /\ inv[p].mergeRaised
        /\ inv[p].drop = "ok"
        /\ ~temp[<<inv[p].kind, inv[p].wave>>].exists

\* C6: when the MERGE fails the invocation returns (False, message), never
\* a success, and it has a result only after the drop was attempted.
C6_MergeFailureIsReturned ==
    \A p \in Procs :
        inv[p].mergeRaised =>
            /\ inv[p].result \in {"none", "fail"}
            /\ inv[p].result = "fail" =>
                  /\ inv[p].msg = "Error: MERGE"
                  /\ IssuedAfter(p, "MERGE", "DROP")
                  /\ inv[p].drop \in {"ok", "failed"}

C6_Witness ==
    \E p \in Procs :
        /\ Returned(p) /\ inv[p].mergeRaised /\ inv[p].result = "fail"
        /\ inv[p].drop = "failed"
        /\ merge_nondeterministic(rows[inv[p].kind],
                                  temp[<<inv[p].kind, inv[p].wave>>].rows,
                                  KeyColumn(inv[p].kind))

\* the steps of an upsert that can fail
BlockingFaults ==
    {"describe", "describe_refresh", "alter", "current_db", "stage", "merge"}

\* the steps whose failure ends the upsert with (False, message)
ReturnedFaults == {"describe_refresh", "current_db", "stage", "merge"}

C7_WitnessSkippedAdd ==
    \E p \in Procs :
        /\ Returned(p) /\ "alter" \in inv[p].faults /\ inv[p].result = "ok"

\* C8: over any sequence of schema creations and upserts no column that
\* exists is renamed, retyped or dropped and no table is dropped: a column
\* that exists in a state exists with the same type in every later state.
C8_SchemaOnlyGrows ==
    [][\A kind \in Kinds :
          /\ kind \in created => kind \in created'
          /\ \A c \in Columns :
                colType[kind][c] # Absent => colType'[kind][c] = colType[kind][c]]_vars

C8_Witness ==
    \E p \in Procs :
        /\ Returned(p) /\ calls = "delta" /\ inv[p].expand.ok
        /\ NewColumn \in inv[p].preCols
        /\ NewColumn \in inv[p].df.columns
        /\ colType[inv[p].kind][NewColumn] # Absent

C9_WitnessGoesOn ==
    \E p \in Procs :
        Succeeded(p) /\ "describe" \in inv[p].faults /\ WasIssued(p, "MERGE")

\* C10 as stated: when the naming-keys upsert fails, the campaign-data
\* upsert of the same upload_to_snowflake invocation is still attempted.
C10_CampaignAttemptedAfterNamingFailure ==
    (flow.pc = "done" /\ "naming" \in flow.failed) => "campaign" \in flow.attempted

\* C10 as amended: when the naming-keys upsert fails, upload_to_snowflake
\* returns failure at once: the campaign-data upsert, the view creation and
\* the processing-log insert of that invocation are not attempted.
C10_NamingFailureEndsUpload ==
    "naming" \in flow.failed =>
        /\ flow.pc = "done" /\ flow.result = "fail"
        /\ flow.attempted \cap {"campaign", "view", "log"} = {}
        /\ flow.errors_count = 1

C10_Witness ==
    /\ flow.pc = "done" /\ "naming" \in flow.failed
    /\ \E p \in Procs : inv[p].kind = "naming" /\ inv[p].mergeRaised

\* C11: every invocation of upload_to_snowflake writes exactly one row to
\* PROCESSING_LOG, with status SUCCESS when the invocation succeeded and
\* FAILED when it failed at schema creation or at one of the upserts.
C11_OneAuditRowPerUpload ==
    flow.pc = "done" =>
        /\ Len(log) = 1
        /\ log[1].status = IF flow.result = "ok" THEN "SUCCESS" ELSE "FAILED"

\* C20: a failed drop of the temporary table does not change what the
\* upsert returns: success when the MERGE succeeded, the failure of the
\* MERGE when the MERGE raised.
C20_DropFailureKeepsOutcome ==
    \A p \in Procs :
        (Returned(p) /\ inv[p].drop = "failed") =>
            IF inv[p].mergeRaised
            THEN inv[p].result = "fail" /\ inv[p].msg = "Error: MERGE"
            ELSE /\ inv[p].result = "ok"
                 /\ inv[p].msg \in {"Inserted/Updated", "Inserted/Updated | warning"}

C20_Witness ==
    \E p \in Procs :
        /\ Succeeded(p) /\ inv[p].drop = "failed" /\ ~inv[p].mergeRaised
        /\ temp[<<inv[p].kind, inv[p].wave>>].exists
        /\ rows[inv[p].kind] # inv[p].pre

\* ============================================== validators.normalize_column_name
\* the variables of the warehouse and of the engine, untouched by the calls
\* of the pure functions
warehouse == <<now, created, colType, rows, temp, view, log, calls, inv, flow>>

MaxLabelLen == 3    \* characters of a column label

\* characters of labels: letters of both cases, a digit, the space, a tab,
\* the underscore and a symbol
UpperLetters == <<"A", "N", "S">>
LowerLetters == <<"a", "n", "s">>
OtherLower == {"b", "d", "e", "i", "m", "t"}
Digits == {"7"}
Whitespace == {" ", "\t"}
Symbols == {"_", "!"}

Range(s) == {s[i] : i \in DOMAIN s}
Letters == Range(UpperLetters) \cup Range(LowerLetters) \cup OtherLower

\* str.lower() on one character
LowerOf(c) ==
    IF \E i \in DOMAIN UpperLetters : UpperLetters[i] = c
    THEN LowerLetters[CHOOSE i \in DOMAIN UpperLetters : UpperLetters[i] = c]
    ELSE c

\* str.strip(chars): leading and trailing characters of the set removed
RECURSIVE lstrip(_, _)
lstrip(s, chars) ==
    IF s # <<>> /\ Head(s) \in chars THEN lstrip(Tail(s), chars) ELSE s

RECURSIVE rstrip(_, _)
rstrip(s, chars) ==
    IF s # <<>> /\ s[Len(s)] \in chars
    THEN rstrip(SubSeq(s, 1, Len(s) - 1), chars) ELSE s

strip(s, chars) == rstrip(lstrip(s, chars), chars)

\* re.sub(r'[^a-zA-Z0-9 ]', '', s)
RECURSIVE remove_symbols(_)
remove_symbols(s) ==
    IF s = <<>> THEN <<>>
    ELSE IF Head(s) \in Letters \cup Digits \cup {" "}
         THEN <<Head(s)>> \o remove_symbols(Tail(s))
         ELSE remove_symbols(Tail(s))

\* s.replace(' ', '_').lower()
replace_and_lower(s) ==
    [i \in DOMAIN s |-> IF s[i] = " " THEN "_" ELSE LowerOf(s[i])]

\* re.sub(r'_+', '_', s)
RECURSIVE collapse_underscores(_)
collapse_underscores(s) ==
    IF Len(s) < 2 THEN s
    ELSE IF s[1] = "_" /\ s[2] = "_" THEN collapse_underscores(Tail(s))
         ELSE <<s[1]>> \o collapse_underscores(Tail(s))

\* a column label: missing (None / NaN) or a text
Label(text) == [missing |-> FALSE, text |-> text]
MissingLabel == [missing |-> TRUE, text |-> <<>>]

\* variant: the leading and trailing underscores are kept
normalize_column_name_untrimmed(col_name) ==
    IF col_name.missing THEN <<>>
    ELSE collapse_underscores(
           replace_and_lower(remove_symbols(strip(col_name.text, Whitespace))))

\* normalize_column_name(col_name), the text it returns
normalize_column_name(col_name) ==
    IF col_name.missing THEN <<>>
    ELSE strip(collapse_underscores(
                 replace_and_lower(
                   remove_symbols(strip(col_name.text, Whitespace)))),
               {"_"})

\* the labels the function is called with
LabelChars == Letters \cup Digits \cup Whitespace \cup Symbols

RECURSIVE TextsUpTo(_, _)
TextsUpTo(chars, n) ==
    IF n = 0 THEN {<<>>}
    ELSE LET shorter == TextsUpTo(chars, n - 1)
         IN  shorter \cup {Append(t, c) : t \in shorter, c \in chars}

Labels == {Label(t) : t \in TextsUpTo(LabelChars, MaxLabelLen)} \cup {MissingLabel}

InitNormalize ==
    /\ WarehouseInit
    /\ call \in {[fn |-> "normalize_column_name", arg |-> x, step |-> 0,
                  out |-> <<>>, again |-> <<>>] : x \in Labels}

\* normalized = normalize_column_name(col_name)
normalize_label ==
    /\ call.fn = "normalize_column_name" /\ call.step = 0
    /\ call' = [call EXCEPT !.step = 1, !.out = normalize_column_name(call.arg)]
    /\ UNCHANGED warehouse

\* normalize_column_name applied to its own result
normalize_result ==
    /\ call.fn = "normalize_column_name" /\ call.step = 1
    /\ call' = [call EXCEPT !.step = 2,
                            !.again = normalize_column_name(Label(call.out))]
    /\ UNCHANGED warehouse

NextNormalize == normalize_label \/ normalize_result

SpecNormalize == InitNormalize /\ [][NextNormalize]_vars

\* a canonical name: lowercase letters, digits and single interior underscores
Canonical(s) ==
    /\ s # <<>>
    /\ \A i \in DOMAIN s :
          s[i] \in Range(LowerLetters) \cup OtherLower \cup Digits \cup {"_"}
    /\ s[1] # "_" /\ s[Len(s)] # "_"
    /\ \A i \in 1..(Len(s) - 1) : ~(s[i] = "_" /\ s[i + 1] = "_")

\* C12: normalize_column_name is idempotent, and a canonical name is
\* returned unchanged.
C12_NormalizeIdempotent ==
    /\ (call.fn = "normalize_column_name" /\ call.step = 2)
          => call.again = call.out
    /\ (call.fn = "normalize_column_name" /\ call.step >= 1
          /\ ~call.arg.missing /\ Canonical(call.arg.text))
          => call.out = call.arg.text

\* the words of a text: its maximal runs of letters and digits, the other
\* characters dropped and the spaces separating
RECURSIVE WordsOf(_, _)
WordsOf(s, word) ==
    IF s = <<>> THEN (IF word = <<>> THEN <<>> ELSE <<word>>)
    ELSE IF Head(s) = " "
         THEN (IF word = <<>> THEN <<>> ELSE <<word>>) \o WordsOf(Tail(s), <<>>)
         ELSE IF Head(s) \in Letters \cup Digits
              THEN WordsOf(Tail(s), Append(word, LowerOf(Head(s))))
              ELSE WordsOf(Tail(s), word)

RECURSIVE JoinWords(_)
JoinWords(ws) ==
    IF ws = <<>> THEN <<>>
    ELSE IF Len(ws) = 1 THEN ws[1]
         ELSE ws[1] \o <<"_">> \o JoinWords(Tail(ws))

MaxCells == 5    \* cells of a column handed to the type inference

\* cells of an input column: integer-looking and fractional numbers, clock
\* text, a date, plain text and the missing cell NULL
IntCells == {"3"}
FracCells == {"1.5"}
ClockCells == {"0:00:00"}
DateCells == {"2024-01-05"}
TextCells == {"abc"}
Cells == IntCells \cup FracCells \cup ClockCells \cup DateCells \cup TextCells
             \cup {NULL}

\* pd.to_numeric(errors='coerce') gives a number
to_numeric(v) == v \in IntCells \cup FracCells \cup Waves

\* pd.to_datetime(errors='coerce') gives a timestamp: dates always, plain
\* text never, numbers and clock text as the parser of the installed
\* pandas decides (lenient is the set of those it accepts)
to_datetime(v, lenient) == v \in DateCells \cup lenient
LenientSets == SUBSET (IntCells \cup FracCells \cup ClockCells)

\* variant: the numeric branch is taken from a share of 0.8 on
infer_column_type_from_threshold(dtype, values, lenient) ==
    LET non_null == FilterBag(values, LAMBDA v : v # NULL)
        total == BagCardinality(non_null)
        numeric == CountRows(non_null, to_numeric)
        integral == CountRows(non_null, LAMBDA v : v \in IntCells)
        dates == CountRows(non_null, LAMBDA v : to_datetime(v, lenient))
    IN  IF dtype # "object"
        THEN (IF dtype = "datetime64" THEN "DATETIME"
              ELSE IF dtype = "float64" THEN "FLOAT" ELSE "INT")
        ELSE IF total = 0 THEN "STRING"
        ELSE IF numeric * ThresholdDen >= ThresholdNum * total
             THEN (IF integral = numeric THEN "INT" ELSE "FLOAT")
        ELSE IF dates * ThresholdDen > ThresholdNum * total THEN "DATETIME"
        ELSE "STRING"

\* _infer_column_type(series): dtype is the pandas dtype of the series,
\* values the bag of its cells
infer_column_type(dtype, values, lenient) ==
    LET non_null == FilterBag(values, LAMBDA v : v # NULL)
        total == BagCardinality(non_null)
        numeric == CountRows(non_null, to_numeric)
        integral == CountRows(non_null, LAMBDA v : v \in IntCells)
        dates == CountRows(non_null, LAMBDA v : to_datetime(v, lenient))
    IN  CASE dtype = "datetime64" -> "DATETIME"
          [] dtype = "int64" -> "INT"
          [] dtype = "float64" -> "FLOAT"
          [] dtype = "bool" -> "INT"
          [] OTHER ->
               IF total = 0 THEN "STRING"
               ELSE IF numeric * ThresholdDen > ThresholdNum * total
                    THEN (IF integral = numeric THEN "INT" ELSE "FLOAT")
               ELSE IF dates * ThresholdDen > ThresholdNum * total
                    THEN "DATETIME"
               ELSE "STRING"

\* the series the function is called with: raw (object) columns of any
\* cells, and native columns of the cells their dtype can hold
SeriesOf(dtype) ==
    CASE dtype = "object" -> BagsUpTo(Cells, MaxCells)
      [] dtype = "int64" -> BagsUpTo(IntCells, 1)
      [] dtype = "float64" -> BagsUpTo(IntCells \cup FracCells \cup {NULL}, 1)
      [] dtype = "datetime64" -> BagsUpTo(DateCells \cup {NULL}, 1)
      [] OTHER -> {EmptyBag}
Dtypes == {"object", "int64", "float64", "datetime64", "bool"}

InitInfer ==
    /\ WarehouseInit
    /\ call \in {[fn |-> "_infer_column_type", dtype |-> d, series |-> b,
                  lenient |-> l, step |-> 0, out |-> "none"] :
                   d \in Dtypes, b \in UNION {SeriesOf(x) : x \in Dtypes},
                   l \in LenientSets}
    /\ call.series \in SeriesOf(call.dtype)

\* inferred_type = self._infer_column_type(series)
infer_column ==
    /\ call.fn = "_infer_column_type" /\ call.step = 0
    /\ call' = [call EXCEPT !.step = 1,
                  !.out = infer_column_type(call.dtype, call.series,
                                            call.lenient)]
    /\ UNCHANGED warehouse

NextInfer == infer_column

SpecInfer == InitInfer /\ [][NextInfer]_vars

\* the non-missing cells of the series under inference, and counts of them
NonMissing == FilterBag(call.series, LAMBDA v : v # NULL)
NumericShareAbove ==
    CountRows(NonMissing, to_numeric) * ThresholdDen
        > ThresholdNum * BagCardinality(NonMissing)
PlainTextAboveFifth ==
    CountRows(NonMissing, LAMBDA v : v \in TextCells) * 5
        > BagCardinality(NonMissing)
InferredRaw ==
    call.fn = "_infer_column_type" /\ call.step = 1 /\ call.dtype = "object"

\* C14: for a raw column the inference returns one of INT, FLOAT, DATETIME,
\* STRING; all non-missing values integer-looking gives INT, integer-looking
\* values with a fractional one give FLOAT, more than 20% plain text gives
\* STRING, all missing gives STRING, and INT or FLOAT is returned only when
\* the numerically coercible share of the non-missing values exceeds 0.8.
C14_InferredType ==
    InferredRaw =>
        /\ call.out \in {"INT", "FLOAT", "DATETIME", "STRING"}
        /\ (NonMissing # EmptyBag /\ BagToSet(NonMissing) \subseteq IntCells)
              => call.out = "INT"
        /\ (BagToSet(NonMissing) \subseteq IntCells \cup FracCells
              /\ BagToSet(NonMissing) \cap FracCells # {})
              => call.out = "FLOAT"
        /\ PlainTextAboveFifth => call.out = "STRING"
        /\ NonMissing = EmptyBag => call.out = "STRING"
        /\ call.out \in {"INT", "FLOAT"} <=> NumericShareAbove

\* four numbers of five cells are a share of exactly 0.8: not numeric
C14_Witness ==
    /\ InferredRaw
    /\ BagCardinality(NonMissing) = 5
    /\ CountRows(NonMissing, to_numeric) = 4
    /\ call.out \notin {"INT", "FLOAT"}

C14_WitnessFloat ==
    /\ InferredRaw
    /\ CopiesIn("3", call.series) = 2 /\ CopiesIn("1.5", call.series) = 1
    /\ CopiesIn(NULL, call.series) = 1
    /\ call.out = "FLOAT"

\* ================================== data_processor.preprocess_campaign_data
MaxSheetRows == 6    \* rows of a sheet handed to the preprocessing

\* columns of the sheets: the two keys, a declared FLOAT metric (bid), an
\* undeclared metric (sends), the name an underscored header normalizes to
\* (adname), and declared columns no sheet carries
SheetColumns ==
    {"ad_name", "ad_set_name", "adname", "bid", "sends", "campaign_name",
     "reach", "ends", "audience", "wave_number"}

expected_campaign_columns ==
    [c \in {"campaign_name", "ad_name", "ad_set_name", "ends", "wave_number",
            "bid", "reach"} |->
        CASE c \in {"campaign_name", "ad_name", "ad_set_name"} -> "STRING"
          [] c = "ends" -> "DATETIME"
          [] c = "bid" -> "FLOAT"
          [] OTHER -> "INT"]

expected_naming_columns ==
    [c \in {"ad_set_name", "audience"} |-> "STRING"]

expected_columns(kind) ==
    IF kind = "campaign" THEN expected_campaign_columns
    ELSE expected_naming_columns

\* the name of a normalized header
ColumnName(text) ==
    CASE text = <<"a", "d", "_", "n", "a", "m", "e">> -> "ad_name"
      [] text = <<"a", "d", "_", "s", "e", "t", "_", "n", "a", "m", "e">>
            -> "ad_set_name"
      [] text = <<"a", "d", "n", "a", "m", "e">> -> "adname"
      [] text = <<"b", "i", "d">> -> "bid"
      [] text = <<"s", "e", "n", "d", "s">> -> "sends"
      [] OTHER -> "unnamed"

\* headers of the input files
SpacedAdName == <<"A", "d", " ", "N", "a", "m", "e">>
UnderscoredAdName == <<"a", "d", "_", "n", "a", "m", "e">>
SpacedAdSetName == <<"A", "d", " ", "S", "e", "t", " ", "N", "a", "m", "e">>
BidHeader == <<"b", "i", "d">>
SendsHeader == <<"s", "e", "n", "d", "s">>

\* cells of key columns: identifiers, and blank text
BlankCells == {"", " "}
MissingText == "nan"         \* str() of a missing cell
ParsedTime == "timestamp"    \* pd.to_datetime of text that is not a date

BlankRow == [c \in SheetColumns |-> NULL]

\* pd.read_csv: the dtype of a column from its cells
read_dtype(values) ==
    LET non_null == BagToSet(FilterBag(values, LAMBDA v : v # NULL))
    IN  IF \A v \in non_null : to_numeric(v)
        THEN (IF NULL \notin BagToSet(values) /\ non_null \cap FracCells = {}
              THEN "int64" ELSE "float64")
        ELSE "object"

\* pd.read_csv followed by the renaming of every header to its normalized
\* name; sheet.header maps each column of the file to its header text
HeaderName(sheet, c) ==
    ColumnName(normalize_column_name(Label(sheet.header[c])))

rename_columns(sheet) ==
    LET names == {HeaderName(sheet, c) : c \in DOMAIN sheet.header}
        source(d) == CHOOSE c \in DOMAIN sheet.header : HeaderName(sheet, c) = d
        renamed == MapBag(sheet.rows, LAMBDA r :
                     [d \in SheetColumns |->
                        IF d \in names THEN r[source(d)] ELSE NULL])
    IN  [columns |-> names,
         dtype |-> [d \in SheetColumns |->
                      IF d \in names
                      THEN read_dtype(ColumnValues(sheet.rows, source(d)))
                      ELSE Absent],
         rows |-> renamed]

\* variant: every column that is not of a numeric dtype is cleaned
cleaned_columns_any_text(df, lenient) ==
    {c \in df.columns : df.dtype[c] = "object"}

\* the columns _clean_time_formatted_values cleans: not of a numeric dtype,
\* inferred INT or FLOAT
cleaned_columns(df, lenient) ==
    {c \in df.columns :
        /\ df.dtype[c] = "object"
        /\ infer_column_type(df.dtype[c], ColumnValues(df.rows, c), lenient)
              \in {"INT", "FLOAT"}}

\* _clean_time_formatted_values(df): cells matching ^\d{1,2}:\d{2}:\d{2}$
\* are set to None
clean_time_formatted_values(df, lenient) ==
    LET cols == cleaned_columns(df, lenient)
    IN  [df EXCEPT !.rows = MapBag(@, LAMBDA r :
            [c \in SheetColumns |->
                IF c \in cols /\ r[c] \in ClockCells THEN NULL ELSE r[c]])]

\* processed_df['wave_number'] = wave_number
add_wave_number(df, wave_number) ==
    [columns |-> df.columns \cup {"wave_number"},
     dtype |-> [df.dtype EXCEPT !["wave_number"] = "int64"],
     rows |-> MapBag(df.rows, LAMBDA r :
                 [r EXCEPT !["wave_number"] = wave_number])]

\* isnull() | (astype(str).str.strip() == '')
null_mask(v) == v = NULL \/ v \in BlankCells

\* the ad_name / ad_set_name fallback
reconcile_keys(df) ==
    LET has_ad == "ad_name" \in df.columns
        has_set == "ad_set_name" \in df.columns
    IN  IF ~has_ad /\ has_set
        THEN [columns |-> df.columns \cup {"ad_name"},
              dtype |-> [df.dtype EXCEPT !["ad_name"] = df.dtype["ad_set_name"]],
              rows |-> MapBag(df.rows, LAMBDA r :
                          [r EXCEPT !["ad_name"] = r["ad_set_name"]])]
        ELSE IF has_ad /\ ~has_set
        THEN [columns |-> df.columns \cup {"ad_set_name"},
              dtype |-> [df.dtype EXCEPT !["ad_set_name"] = df.dtype["ad_name"]],
              rows |-> MapBag(df.rows, LAMBDA r :
                          [r EXCEPT !["ad_set_name"] = r["ad_name"]])]
        ELSE IF has_ad /\ has_set
        THEN [df EXCEPT !.rows = MapBag(@, LAMBDA r :
                 LET filled == IF null_mask(r["ad_name"])
                               THEN [r EXCEPT !["ad_name"] = r["ad_set_name"]]
                               ELSE r
                 IN  IF null_mask(filled["ad_set_name"])
                     THEN [filled EXCEPT !["ad_set_name"] = filled["ad_name"]]
                     ELSE filled)]
        ELSE df

\* variant: every missing column is filled with None
default_value_null(dtype) == NULL

\* the default of a declared column the table lacks
default_value(dtype) == IF dtype = "STRING" THEN "" ELSE NULL

\* variant: a declared column the file lacks is not added
add_missing_columns_skipped(df, expected) == df

\* "Add missing columns with default values"
add_missing_columns(df, expected) ==
    LET missing == DOMAIN expected \ df.columns
    IN  [columns |-> df.columns \cup missing,
         dtype |-> [c \in SheetColumns |->
                      IF c \in missing THEN "object" ELSE df.dtype[c]],
         rows |-> MapBag(df.rows, LAMBDA r :
                     [c \in SheetColumns |->
                        IF c \in missing THEN default_value(expected[c])
                        ELSE r[c]])]

\* the conversion of one cell to a type: pd.to_numeric and pd.to_datetime
\* with errors='coerce', astype(str).fillna('')
convert_cell(type, v, lenient) ==
    CASE type \in {"INT", "FLOAT"} -> IF to_numeric(v) THEN v ELSE NULL
      [] type = "DATETIME" ->
            IF v \in DateCells THEN v
            ELSE IF v \in lenient THEN ParsedTime ELSE NULL
      [] OTHER -> IF v = NULL THEN MissingText ELSE v

\* the dtype of a converted column
converted_dtype(type, values) ==
    CASE type \in {"INT", "FLOAT"} -> read_dtype(values)
      [] type = "DATETIME" -> "datetime64"
      [] OTHER -> "object"

\* the conversion of the columns cols of df, each to the type types[c]
convert_columns(df, cols, types, lenient) ==
    LET converted == MapBag(df.rows, LAMBDA r :
            [c \in SheetColumns |->
                IF c \in cols THEN convert_cell(types[c], r[c], lenient)
                ELSE r[c]])
    IN  [columns |-> df.columns,
         dtype |-> [c \in SheetColumns |->
                      IF c \in cols
                      THEN converted_dtype(types[c], ColumnValues(converted, c))
                      ELSE df.dtype[c]],
         rows |-> converted]

\* _process_new_columns(df): the columns outside the expected schema are
\* converted to their inferred types
process_new_columns(df, lenient) ==
    LET new_cols == df.columns \ DOMAIN expected_campaign_columns
        inferred == [c \in new_cols |->
                       infer_column_type(df.dtype[c], ColumnValues(df.rows, c),
                                         lenient)]
    IN  convert_columns(df, new_cols, inferred, lenient)

\* preprocess_campaign_data after the cleaning: wave number, key fallback,
\* missing columns, conversions, new columns, duplicates
finish_campaign_data(cleaned, wave_number, lenient) ==
    LET keyed == reconcile_keys(add_wave_number(cleaned, wave_number))
        full == add_missing_columns(keyed, expected_campaign_columns)
        typed == convert_columns(full, DOMAIN expected_campaign_columns,
                                 expected_campaign_columns, lenient)
        done == process_new_columns(typed, lenient)
    IN  [done EXCEPT !.rows = drop_duplicates(@)]

preprocess_campaign_data(sheet, wave_number, lenient) ==
    finish_campaign_data(
        clean_time_formatted_values(rename_columns(sheet), lenient),
        wave_number, lenient)

preprocess_naming_data(sheet, wave_number, lenient) ==
    LET waved == add_wave_number(rename_columns(sheet), wave_number)
        full == add_missing_columns(waved, expected_naming_columns)
        typed == convert_columns(full, DOMAIN expected_naming_columns,
                                 expected_naming_columns, lenient)
    IN  [typed EXCEPT !.rows = drop_duplicates(@)]

\* ------------------------------------------------- the sheets preprocessed
\* rows of a sheet: the ad_name cell, the ad_set_name cell and the cell of
\* the metrics
SheetRow(ad_name, ad_set_name, metric) ==
    [BlankRow EXCEPT !["ad_name"] = ad_name, !["ad_set_name"] = ad_set_name,
                     !["bid"] = metric, !["sends"] = metric]

SheetRows ==
    {SheetRow("Ad1", NULL, "1.5"), SheetRow(NULL, "Set1", "0:00:00"),
     SheetRow(" ", "Set1", "abc"), SheetRow("3", "Set1", "3"),
     SheetRow("0:00:00", NULL, "3")}

HeaderTexts(c) ==
    CASE c = "ad_name" -> {SpacedAdName, UnderscoredAdName}
      [] c = "ad_set_name" -> {SpacedAdSetName}
      [] c = "bid" -> {BidHeader}
      [] OTHER -> {SendsHeader}

HeadersOver(S) ==
    {h \in [S -> UNION {HeaderTexts(c) : c \in S}] :
        \A c \in S : h[c] \in HeaderTexts(c)}

SheetHeaders ==
    UNION {HeadersOver(S) : S \in SUBSET {"ad_name", "ad_set_name", "bid", "sends"}}

\* the file with the header h and the rows of bag: cells of its columns only
Sheet(h, bag) ==
    [header |-> h,
     rows |-> MapBag(bag, LAMBDA r :
                 [c \in SheetColumns |-> IF c \in DOMAIN h THEN r[c] ELSE NULL])]

\* the normalized column names of a sheet
normalized_columns(sheet) == {HeaderName(sheet, c) : c \in DOMAIN sheet.header}

NoFrame ==
    [columns |-> {}, dtype |-> [c \in SheetColumns |-> Absent],
     rows |-> EmptyBag]

\* process_files preprocesses the sheets that passed the validation: at
\* least one row, a key column among the normalized names
ValidCampaignSheet(sheet) ==
    /\ sheet.rows # EmptyBag
    /\ normalized_columns(sheet) \cap {"ad_name", "ad_set_name"} # {}

ValidNamingSheet(sheet) ==
    /\ sheet.rows # EmptyBag
    /\ "ad_set_name" \in normalized_columns(sheet)

Lenience == {{}, IntCells \cup FracCells \cup ClockCells}

InitPreprocess ==
    /\ WarehouseInit
    /\ \E h \in SheetHeaders, bag \in BagsUpTo(SheetRows, MaxSheetRows),
          w \in Waves, l \in Lenience :
          \/ /\ ValidCampaignSheet(Sheet(h, bag))
             /\ call = [fn |-> "preprocess_campaign_data", sheet |-> Sheet(h, bag),
                        wave |-> w, lenient |-> l, step |-> 0,
                        cleaned |-> NoFrame, out |-> NoFrame]
          \/ /\ ValidNamingSheet(Sheet(h, bag))
             /\ DOMAIN h \subseteq {"ad_set_name", "sends"}
             /\ call = [fn |-> "preprocess_naming_data", sheet |-> Sheet(h, bag),
                        wave |-> w, lenient |-> l, step |-> 0,
                        cleaned |-> NoFrame, out |-> NoFrame]

\* preprocess_campaign_data up to "Step 2: Data cleaning complete"
campaign_cleaned ==
    /\ call.fn = "preprocess_campaign_data" /\ call.step = 0
    /\ call' = [call EXCEPT !.step = 1,
                  !.cleaned = clean_time_formatted_values(
                                  rename_columns(call.sheet), call.lenient)]
    /\ UNCHANGED warehouse

\* preprocess_campaign_data from the wave number to its return
campaign_preprocessed ==
    /\ call.fn = "preprocess_campaign_data" /\ call.step = 1
    /\ call' = [call EXCEPT !.step = 2,
                  !.out = finish_campaign_data(call.cleaned, call.wave,
                                               call.lenient)]
    /\ UNCHANGED warehouse

naming_preprocessed ==
    /\ call.fn = "preprocess_naming_data" /\ call.step = 0
    /\ call' = [call EXCEPT !.step = 2,
                  !.out = preprocess_naming_data(call.sheet, call.wave,
                                                 call.lenient)]
    /\ UNCHANGED warehouse

NextPreprocess ==
    campaign_cleaned \/ campaign_preprocessed \/ naming_preprocessed

SpecPreprocess == InitPreprocess /\ [][NextPreprocess]_vars

\* a populated key cell, and a key cell holding a real identifier
Populated(v) == v # NULL /\ v \notin BlankCells
RealIdentifier(v) == Populated(v) /\ v # MissingText

CampaignDone == call.fn = "preprocess_campaign_data" /\ call.step = 2
NamingDone == call.fn = "preprocess_naming_data" /\ call.step = 2
InputFrame == rename_columns(call.sheet)
InputColumns == normalized_columns(call.sheet)
InputKeys == InputColumns \cap {"ad_name", "ad_set_name"}

\* C15: when exactly one of ad_name / ad_set_name is a column of the input
\* the other is a copy of it, and when every row of the input has at least
\* one of the two populated, every row of the result has both populated
\* with a real identifier.
C15_KeysReconciled ==
    CampaignDone =>
        /\ Cardinality(InputKeys) = 1
              => \A r \in BagToSet(call.out.rows) :
                    r["ad_name"] = r["ad_set_name"]
        /\ (\A r \in BagToSet(InputFrame.rows) :
                Populated(r["ad_name"]) \/ Populated(r["ad_set_name"]))
              => \A r \in BagToSet(call.out.rows) :
                    /\ RealIdentifier(r["ad_name"])
                    /\ RealIdentifier(r["ad_set_name"])

\* the same of the rows as the cleaning left them
C15_KeysReconciledAfterCleaning ==
    (/\ CampaignDone
     /\ \A r \in BagToSet(call.cleaned.rows) :
            Populated(r["ad_name"]) \/ Populated(r["ad_set_name"]))
        => \A r \in BagToSet(call.out.rows) :
              /\ RealIdentifier(r["ad_name"])
              /\ RealIdentifier(r["ad_set_name"])

\* the declared schema of the call, and its columns the input lacks
PreprocessDone == CampaignDone \/ NamingDone
ExpectedOfCall ==
    IF call.fn = "preprocess_campaign_data" THEN expected_campaign_columns
    ELSE expected_naming_columns
BackfilledColumns == DOMAIN ExpectedOfCall \ InputColumns
SiblingKey(c) == IF c = "ad_name" THEN "ad_set_name" ELSE "ad_name"

\* C16 as stated: every declared column is present in the result, and a
\* declared column absent from the input is NULL in every row when declared
\* INT, FLOAT or DATETIME and the empty string when declared STRING.
C16_BackfillDefaults ==
    PreprocessDone =>
        /\ DOMAIN ExpectedOfCall \subseteq call.out.columns
        /\ \A c \in BackfilledColumns : \A r \in BagToSet(call.out.rows) :
              r[c] = IF ExpectedOfCall[c] = "STRING" THEN "" ELSE NULL

\* C16: every declared column is present in the result; a declared column
\* absent from the input holds the wave number when it is wave_number, the
\* value of the other key when it is a key of the campaign table whose
\* sibling is in the input, and otherwise NULL when declared INT, FLOAT or
\* DATETIME and the empty string when declared STRING.
C16_BackfillDefaultsButWaveAndKeys ==
    PreprocessDone =>
        /\ DOMAIN ExpectedOfCall \subseteq call.out.columns
        /\ \A c \in BackfilledColumns : \A r \in BagToSet(call.out.rows) :
              IF c = "wave_number" THEN r[c] = call.wave
              ELSE IF /\ CampaignDone /\ c \in {"ad_name", "ad_set_name"}
                      /\ SiblingKey(c) \in InputColumns
                   THEN r[c] = r[SiblingKey(c)]
              ELSE r[c] = IF ExpectedOfCall[c] = "STRING" THEN "" ELSE NULL

C16_Witness ==
    /\ CampaignDone
    /\ InputColumns = {"ad_set_name", "sends"}
    /\ \E r \in BagToSet(call.out.rows) :
          /\ r["campaign_name"] = "" /\ r["reach"] = NULL /\ r["ends"] = NULL
          /\ r["bid"] = NULL /\ r["wave_number"] = "2"
          /\ r["ad_name"] = "Set1" /\ r["ad_set_name"] = "Set1"

C16_WitnessNaming ==
    /\ NamingDone
    /\ "audience" \notin InputColumns
    /\ \E r \in BagToSet(call.out.rows) :
          r["audience"] = "" /\ r["ad_set_name"] = "Set1"

\* the cells of a column with the clock text replaced by the missing cell
WithoutClockText(values) ==
    MapBag(values, LAMBDA v : IF v \in ClockCells THEN NULL ELSE v)

\* a column of raw values holding numbers together with clock text
NumbersWithClockText(df, c) ==
    /\ df.dtype[c] = "object"
    /\ \E r \in BagToSet(df.rows) : to_numeric(r[c])
    /\ \E r \in BagToSet(df.rows) : r[c] \in ClockCells

\* a column of raw values whose inferred type is INT or FLOAT
InferredNumeric(df, c) ==
    /\ df.dtype[c] = "object"
    /\ infer_column_type(df.dtype[c], ColumnValues(df.rows, c), call.lenient)
          \in {"INT", "FLOAT"}

NumericDtype(d) == d \in {"int64", "float64"}

\* C17 as stated: in every raw column of the campaign input holding numbers
\* together with clock text the cleaning turns the clock cells into missing
\* cells and leaves the others, no clock text is left after preprocessing
\* and the final type is numeric; a column whose inferred type is not INT or
\* FLOAT is not modified by the cleaning.
C17_ClockTextScrubbed ==
    CampaignDone =>
        LET input == InputFrame IN
        \A c \in input.columns :
            /\ NumbersWithClockText(input, c) =>
                 /\ ColumnValues(call.cleaned.rows, c)
                       = WithoutClockText(ColumnValues(input.rows, c))
                 /\ \A r \in BagToSet(call.out.rows) : r[c] \notin ClockCells
                 /\ NumericDtype(call.out.dtype[c])
            /\ ~InferredNumeric(input, c) =>
                 ColumnValues(call.cleaned.rows, c) = ColumnValues(input.rows, c)

\* C17: in every raw column of the campaign input whose inferred type is INT
\* or FLOAT the cleaning turns the clock cells into missing cells and leaves
\* the others; when the column is undeclared or declared INT or FLOAT its
\* cells are numbers or NULL after preprocessing and its final type is
\* numeric; every other column is not modified by the cleaning.
C17_InferredNumericScrubbed ==
    CampaignDone =>
        LET input == InputFrame IN
        \A c \in input.columns :
            IF InferredNumeric(input, c)
            THEN /\ ColumnValues(call.cleaned.rows, c)
                       = WithoutClockText(ColumnValues(input.rows, c))
                 /\ (c \notin DOMAIN expected_campaign_columns
                        \/ expected_campaign_columns[c] \in {"INT", "FLOAT"})
                      => /\ NumericDtype(call.out.dtype[c])
                         /\ \A r \in BagToSet(call.out.rows) :
                               r[c] = NULL \/ to_numeric(r[c])
            ELSE ColumnValues(call.cleaned.rows, c) = ColumnValues(input.rows, c)

C17_Witness ==
    /\ CampaignDone
    /\ "sends" \in InputColumns
    /\ CopiesIn("0:00:00", ColumnValues(call.sheet.rows, "sends")) = 1
    /\ CopiesIn("3", ColumnValues(call.sheet.rows, "sends")) = 5
    /\ CopiesIn(NULL, ColumnValues(call.cleaned.rows, "sends")) = 1
    /\ call.out.dtype["sends"] = "float64"
    /\ \E r \in BagToSet(call.out.rows) : r["sends"] = NULL

\* a fifth of clock text or more: the column is left to the conversions
C17_WitnessNotCleaned ==
    /\ CampaignDone
    /\ "sends" \in InputColumns
    /\ ~InferredNumeric(InputFrame, "sends")
    /\ \E r \in BagToSet(call.out.rows) : r["sends"] \in ClockCells

\* ===================================== validators and process_files
\* df.empty: no row or no column
empty(sheet) == sheet.rows = EmptyBag \/ DOMAIN sheet.header = {}

\* variant: a campaign table lacking one of the two keys is rejected
validate_campaign_data_strict(sheet) ==
    LET names == normalized_columns(sheet)
    IN  IF {"ad_name", "ad_set_name"} \subseteq names /\ ~empty(sheet)
        THEN [valid |-> TRUE, errors |-> {}, warnings |-> {}]
        ELSE [valid |-> FALSE, errors |-> {"Missing critical columns (required)"},
              warnings |-> {}]

\* validate_campaign_data(df): (is_valid, errors, warnings)
validate_campaign_data(sheet) ==
    LET names == normalized_columns(sheet)
        has_ad_name == "ad_name" \in names
        has_ad_set_name == "ad_set_name" \in names
        missing_optional ==
            (DOMAIN expected_campaign_columns \ names) \ {"ad_name", "ad_set_name"}
        errors == IF ~has_ad_name /\ ~has_ad_set_name
                  THEN {"Missing critical columns (required)"} ELSE {}
        warnings ==
            (IF has_ad_set_name /\ ~has_ad_name
             THEN {"ad_name column missing - will use ad_set_name as fallback"}
             ELSE {})
            \cup (IF has_ad_name /\ ~has_ad_set_name
                  THEN {"ad_set_name column missing - will use ad_name as fallback"}
                  ELSE {})
            \cup (IF missing_optional # {}
                  THEN {"Missing optional campaign columns"} ELSE {})
    IN  IF empty(sheet)
        THEN [valid |-> FALSE, errors |-> {"Campaign data file is empty"},
              warnings |-> {}]
        ELSE [valid |-> errors = {}, errors |-> errors, warnings |-> warnings]

\* validate_naming_data(df): (is_valid, errors, warnings)
validate_naming_data(sheet) ==
    LET names == normalized_columns(sheet)
        missing_optional ==
            (DOMAIN expected_naming_columns \ names) \ {"ad_set_name"}
        errors == IF "ad_set_name" \notin names
                  THEN {"Missing critical column: 'ad_set_name'"} ELSE {}
        warnings == IF missing_optional # {}
                    THEN {"Missing optional naming columns"} ELSE {}
    IN  IF empty(sheet)
        THEN [valid |-> FALSE, errors |-> {"Naming key file is empty"},
              warnings |-> {}]
        ELSE [valid |-> errors = {}, errors |-> errors, warnings |-> warnings]

NotValidated == [valid |-> FALSE, errors |-> {}, warnings |-> {}]

\* the result of process_files
Failure(errors, warnings) ==
    [success |-> FALSE, errors |-> errors, warnings |-> warnings,
     campaign_data |-> NoFrame, naming_data |-> NoFrame]

\* process_files up to the validation: pd.read_csv raises on a file without
\* columns; a failed validation returns the errors of the table
read_and_validate(campaign, naming) ==
    LET c == validate_campaign_data(campaign)
        n == validate_naming_data(naming)
        all_warnings == c.warnings \cup n.warnings
    IN  IF DOMAIN campaign.header = {} \/ DOMAIN naming.header = {}
        THEN [returned |-> TRUE, campaign |-> NotValidated,
              result |-> Failure({"No columns to parse from file"}, {})]
        ELSE IF ~c.valid
        THEN [returned |-> TRUE, campaign |-> c,
              result |-> Failure(c.errors, all_warnings)]
        ELSE IF ~n.valid
        THEN [returned |-> TRUE, campaign |-> c,
              result |-> Failure(n.errors, all_warnings)]
        ELSE [returned |-> FALSE, campaign |-> c,
              result |-> Failure({}, all_warnings)]

\* the files process_files reads
CampaignFiles ==
    {Sheet(h, bag) : h \in SheetHeaders, bag \in BagsUpTo(SheetRows, MaxDfRows)}
NamingFiles ==
    {Sheet(h, bag) : h \in HeadersOver({}) \cup HeadersOver({"ad_set_name"})
                          \cup HeadersOver({"sends"})
                          \cup HeadersOver({"ad_set_name", "sends"}),
                     bag \in BagsUpTo(SheetRows, 1)}

InitProcessFiles ==
    /\ WarehouseInit
    /\ call \in {[fn |-> "process_files", campaign |-> c, naming |-> n,
                  wave |-> w, lenient |-> l, step |-> 0, preprocessed |-> FALSE,
                  campaign_valid |-> NotValidated, result |-> Failure({}, {})] :
                   c \in CampaignFiles, n \in NamingFiles, w \in Waves,
                   l \in Lenience}

\* process_files: read_csv, validation, return on a failed validation
process_files_validate ==
    /\ call.fn = "process_files" /\ call.step = 0
    /\ LET v == read_and_validate(call.campaign, call.naming)
       IN  call' = [call EXCEPT !.step = IF v.returned THEN 2 ELSE 1,
                                !.campaign_valid = v.campaign,
                                !.result = v.result]
    /\ UNCHANGED warehouse

\* process_files: the two preprocessing calls and the success result
process_files_preprocess ==
    /\ call.fn = "process_files" /\ call.step = 1
    /\ call' = [call EXCEPT
                  !.step = 2, !.preprocessed = TRUE,
                  !.result = [success |-> TRUE, errors |-> {},
                              warnings |-> call.result.warnings,
                              campaign_data |->
                                  preprocess_campaign_data(call.campaign,
                                      call.wave, call.lenient),
                              naming_data |->
                                  preprocess_naming_data(call.naming,
                                      call.wave, call.lenient)]]
    /\ UNCHANGED warehouse

NextProcessFiles == process_files_validate \/ process_files_preprocess

SpecProcessFiles == InitProcessFiles /\ [][NextProcessFiles]_vars

\* the cases of the files
FilesReturned == call.fn = "process_files" /\ call.step = 2
CampaignKeys == normalized_columns(call.campaign) \cap {"ad_name", "ad_set_name"}
NamingAccepted ==
    ~empty(call.naming) /\ "ad_set_name" \in normalized_columns(call.naming)

C18_WitnessRejected ==
    /\ FilesReturned /\ ~call.result.success
    /\ ~empty(call.campaign) /\ CampaignKeys = {}
    /\ "adname" \in normalized_columns(call.campaign)
    /\ call.result.errors = {"Missing critical columns (required)"}

\* ============================== the operations called without a session
\* the operations of snowflake_operations that take conn=None
SessionOperations ==
    {"create_schema_and_tables", "populate_naming_keys_table",
     "populate_campaign_data_table", "upload_csv_to_stage",
     "create_audience_ad_descriptor_view", "insert_processing_log"}

PopulateOperation(kind) ==
    IF kind = "naming" THEN "populate_naming_keys_table"
    ELSE "populate_campaign_data_table"

\* the return of an operation, with the statements it executed
Return(op, session, result, msg, issued) ==
    [fn |-> op, session |-> session, result |-> result, msg |-> msg,
     issued |-> issued]

\* variant: without a session the operation goes on to its first statement
no_session_goes_on(op) ==
    /\ Quiet /\ call = NoCall
    /\ call' = Return(op, FALSE, "fail", "Error: no session", <<"SQL">>)
    /\ UNCHANGED warehouse

\* conn is None and get_snowflake_connection() returns None
no_session(op) ==
    /\ Quiet /\ call = NoCall
    /\ call' = Return(op, FALSE, "fail",
                      "Failed to establish Snowflake connection", <<>>)
    /\ UNCHANGED warehouse

\* create_schema_and_tables(conn=None): the session is obtained or not
session_create_schema_and_tables ==
    \E session \in BOOLEAN :
        IF session THEN call = NoCall /\ create_schema_and_tables
        ELSE no_session("create_schema_and_tables")

\* populate_naming_keys_table / populate_campaign_data_table(conn=None)
session_populate(p, kind) ==
    \E session \in BOOLEAN :
        IF session
        THEN /\ call = NoCall /\ calls = "none"
             /\ CallUpsert(p)
             /\ inv'[p].kind = kind
        ELSE no_session(PopulateOperation(kind))

\* upload_csv_to_stage(conn=None): PUT of the file to the stage
session_upload_csv_to_stage ==
    \E session \in BOOLEAN :
        IF session
        THEN /\ Quiet /\ call = NoCall
             /\ \E ok \in BOOLEAN :
                   call' = Return("upload_csv_to_stage", TRUE,
                                  IF ok THEN "ok" ELSE "fail",
                                  IF ok THEN "Uploaded" ELSE "Error: PUT",
                                  <<"PUT">>)
             /\ UNCHANGED warehouse
        ELSE no_session("upload_csv_to_stage")

\* create_audience_ad_descriptor_view(conn=None)
session_create_view ==
    \E session \in BOOLEAN :
        IF session
        THEN /\ Quiet /\ call = NoCall
             /\ \E ok \in BOOLEAN :
                   /\ ok => Kinds \subseteq created
                   /\ view' = (view \/ ok)
                   /\ call' = Return("create_audience_ad_descriptor_view", TRUE,
                                     IF ok THEN "ok" ELSE "fail",
                                     IF ok THEN "View created" ELSE "Error: VIEW",
                                     <<"CREATE OR REPLACE VIEW">>)
             /\ UNCHANGED <<now, created, colType, rows, temp, log, calls, inv, flow>>
        ELSE no_session("create_audience_ad_descriptor_view")

\* insert_processing_log(conn=None)
session_insert_processing_log ==
    \E session \in BOOLEAN :
        IF session
        THEN /\ Quiet /\ call = NoCall
             /\ \E ok \in BOOLEAN, status \in {"SUCCESS", "FAILED"} :
                   /\ ok => "log" \in created
                   /\ log' = IF ok
                             THEN Append(log, [status |-> status,
                                               wave_number |-> "1",
                                               errors_count |-> 0,
                                               warnings_count |-> 0])
                             ELSE log
                   /\ call' = Return("insert_processing_log", TRUE,
                                     IF ok THEN "ok" ELSE "fail",
                                     IF ok THEN "Log inserted" ELSE "Error: INSERT",
                                     <<"INSERT">>)
             /\ UNCHANGED <<now, created, colType, rows, temp, view, calls, inv, flow>>
        ELSE no_session("insert_processing_log")

\* the steps of an upsert that obtained its session
session_upsert(p) == call = NoCall /\ Upsert(p)

NextSession ==
    \/ session_create_schema_and_tables
    \/ \E p \in Procs, kind \in Kinds : session_populate(p, kind)
    \/ \E p \in Procs : session_upsert(p)
    \/ session_upload_csv_to_stage
    \/ session_create_view
    \/ session_insert_processing_log

SpecSession == Init /\ [][NextSession]_vars

\* C19: an operation called without a session that obtains none returns a
\* failure at once: it has executed no statement and the warehouse is as it
\* was.
C19_NoSessionNoWork ==
    [][(call' # call /\ ~call'.session) =>
          /\ call'.fn \in SessionOperations
          /\ call'.result = "fail"
          /\ call'.msg = "Failed to establish Snowflake connection"
          /\ call'.issued = <<>>
          /\ UNCHANGED warehouse]_vars

C19_Witness ==
    /\ call.fn = "populate_campaign_data_table" /\ ~call.session
    /\ call.result = "fail"
    /\ rows["campaign"] # EmptyBag /\ created # {}

C19_WitnessEveryOperation ==
    /\ call.fn \in SessionOperations \ {"populate_campaign_data_table"}
    /\ ~call.session /\ call.result = "fail"
    /\ rows["naming"] # EmptyBag

\* ===================================== expand_table_schema, statement by statement
\* a column name as it is spelled: DESCRIBE TABLE returns upper case, the
\* input table and the exclusions are spelled in either case
Spelled(c, upper) == [name |-> c, upper |-> upper]

\* variant: the spelling is compared as it is
lower_kept(x) == x

\* str.lower() of a spelled column name
lower(x) == [x EXCEPT !.upper = FALSE]

\* the columns an input table of the expansion is drawn from, and the
\* exclusions it is called with
ExpandCandidates ==
    {"ad_name", "wave_number", "upload_timestamp", NewColumn, "audience"}
ExpandExclusions ==
    {{}, {Spelled("upload_timestamp", FALSE)}, {Spelled("audience", TRUE)}}

\* the destinations exist with their declared columns
InitExpand ==
    /\ now = 0
    /\ created = create_objects(Len(execution_order))
    /\ colType = [k \in Kinds |-> [c \in Columns |-> DeclaredType(k, c)]]
    /\ rows = [k \in Kinds |-> EmptyBag]
    /\ temp = [n \in TempNames |-> NoTable]
    /\ view = FALSE /\ log = <<>> /\ calls = "none"
    /\ inv = [p \in Procs |-> IdleInv]
    /\ flow = IdleFlow
    /\ \E kind \in Kinds, S \in SUBSET ExpandCandidates, upper \in BOOLEAN,
          exclude \in ExpandExclusions :
          call = [fn |-> "expand_table_schema", kind |-> kind,
                  df_columns |-> {Spelled(c, upper) : c \in S},
                  exclude_columns |-> exclude,
                  before |-> {c \in Columns : DeclaredType(kind, c) # Absent},
                  pc |-> "describe", new_columns |-> {}, todo |-> {},
                  issued |-> <<>>, failed |-> {},
                  result |-> [ok |-> FALSE, msg |-> "none", columns_added |-> 0]]

\* existing_columns = get_table_columns(...), new_columns = df_columns -
\* existing_columns - exclude_columns, and the two early returns
expand_describe ==
    /\ call.fn = "expand_table_schema" /\ call.pc = "describe"
    /\ \E describeOk \in BOOLEAN :
          LET existing_columns ==
                  {Spelled(c, FALSE) :
                      c \in get_table_columns(colType[call.kind], describeOk)}
              new == new_columns({lower(x) : x \in call.df_columns},
                                 existing_columns,
                                 {lower(x) : x \in call.exclude_columns})
              described == [call EXCEPT !.issued = <<"DESCRIBE">>]
          IN  call' =
                IF existing_columns = {}
                THEN [described EXCEPT !.pc = "done",
                        !.result = [ok |-> FALSE, msg |-> "Could not read schema",
                                    columns_added |-> 0]]
                ELSE IF new = {}
                THEN [described EXCEPT !.pc = "done",
                        !.result = [ok |-> TRUE, msg |-> "Schema is up to date",
                                    columns_added |-> 0]]
                ELSE [described EXCEPT !.pc = "alter", !.new_columns = new,
                                       !.todo = new]
    /\ UNCHANGED warehouse

\* variant: the first failing ADD COLUMN ends the loop with an error
after_add_fatal(c, ok) ==
    LET rest == IF ok THEN call.todo \ {c} ELSE {}
        count == IF ok THEN call.result.columns_added + 1 ELSE 0
    IN  [call EXCEPT
           !.todo = rest,
           !.issued = Append(@, <<"ALTER", c.name>>),
           !.failed = IF ok THEN @ ELSE @ \cup {c},
           !.pc = IF rest = {} THEN "done" ELSE "alter",
           !.result = [ok |-> ok /\ rest = {},
                       msg |-> IF ~ok THEN "Schema expansion error"
                               ELSE IF rest = {} THEN "Successfully added"
                               ELSE "none",
                       columns_added |-> count]]

\* the state of the call after one turn of the loop
after_add(c, ok) ==
    LET rest == call.todo \ {c}
        count == call.result.columns_added + (IF ok THEN 1 ELSE 0)
    IN  [call EXCEPT
           !.todo = rest,
           !.issued = Append(@, <<"ALTER", c.name>>),
           !.failed = IF ok THEN @ ELSE @ \cup {c},
           !.pc = IF rest = {} THEN "done" ELSE "alter",
           !.result = [ok |-> rest = {},
                       msg |-> IF rest = {} THEN "Successfully added" ELSE "none",
                       columns_added |-> count]]

\* one turn of "for col_name in new_columns": ALTER TABLE ... ADD COLUMN,
\* counted when it succeeds, logged when it raises
expand_add_column ==
    /\ call.fn = "expand_table_schema" /\ call.pc = "alter"
    /\ \E c \in call.todo, ok \in BOOLEAN :
          /\ call' = after_add(c, ok)
          /\ colType' = IF ok
                        THEN [colType EXCEPT ![call.kind] =
                                add_columns(@, {c.name},
                                    [columns |-> {x.name : x \in call.df_columns},
                                     rows |-> EmptyBag])]
                        ELSE colType
    /\ UNCHANGED <<now, created, rows, temp, view, log, calls, inv, flow>>

NextExpand == expand_describe \/ expand_add_column

SpecExpand == InitExpand /\ [][NextExpand]_vars

ExpandDone == call.fn = "expand_table_schema" /\ call.pc = "done"

\* the names of the columns an ADD COLUMN was issued for, in order
AlteredColumns == SelectSeq(call.issued, LAMBDA st : st # "DESCRIBE")

\* input columns less the destination's columns less the exclusions, each
\* compared by name whatever its spelling
ExpectedNewColumns ==
    ({x.name : x \in call.df_columns} \ call.before)
        \ {x.name : x \in call.exclude_columns}

\* C21: once the destination's columns were read, expand_table_schema issues
\* exactly one ALTER TABLE ... ADD COLUMN for each input column that is neither
\* a destination column nor an excluded column, compared without regard to
\* case, and none for any other column; when there is no such column it
\* returns (True, "Schema is up to date", 0) with no ADD COLUMN issued
C21_AddColumnPerNewColumn ==
    (ExpandDone /\ call.result.msg # "Could not read schema") =>
        /\ {AlteredColumns[i][2] : i \in 1..Len(AlteredColumns)}
              = ExpectedNewColumns
        /\ Len(AlteredColumns) = Cardinality(ExpectedNewColumns)
        /\ ExpectedNewColumns = {} =>
              /\ call.result = [ok |-> TRUE, msg |-> "Schema is up to date",
                                columns_added |-> 0]
              /\ call.issued = <<"DESCRIBE">>

\* an upper-case input with an existing column, an excluded new column spelled
\* in the other case, and one column really added
C21_Witness ==
    /\ ExpandDone
    /\ Spelled("ad_name", TRUE) \in call.df_columns
    /\ "ad_name" \in call.before
    /\ Spelled("audience", TRUE) \in call.df_columns
    /\ call.kind = "campaign"
    /\ call.exclude_columns = {Spelled("audience", TRUE)}
    /\ AlteredColumns = << <<"ALTER", NewColumn>> >>

\* nothing to add: an early return after the introspection only
C21_WitnessUpToDate ==
    /\ ExpandDone
    /\ call.df_columns # {}
    /\ call.result.msg = "Schema is up to date"

\* C22: a failing ADD COLUMN does not keep any other new column from being
\* added: every new column has its statement issued, the call returns
\* ok = True, and the count returned is the number of statements that
\* succeeded (0 when all failed)
C22_FailedAddColumnSkipped ==
    (ExpandDone /\ call.new_columns # {}) =>
        /\ {AlteredColumns[i][2] : i \in 1..Len(AlteredColumns)}
              = {x.name : x \in call.new_columns}
        /\ call.result.ok
        /\ call.result.columns_added
              = Cardinality(call.new_columns \ call.failed)
        /\ \A c \in call.new_columns \ call.failed :
              colType[call.kind][c.name] # Absent
        /\ \A c \in call.failed : colType[call.kind][c.name] = Absent

\* the first ADD COLUMN failed and the second one was still issued and added
C22_Witness ==
    /\ ExpandDone
    /\ Len(AlteredColumns) = 2
    /\ call.failed = {Spelled(AlteredColumns[1][2], FALSE)}
    /\ call.result.ok /\ call.result.columns_added = 1
    /\ colType[call.kind][AlteredColumns[2][2]] # Absent

\* every ADD COLUMN failed
C22_WitnessAllFailed ==
    /\ ExpandDone
    /\ Len(AlteredColumns) = 2
    /\ Cardinality(call.failed) = 2
    /\ call.result.ok /\ call.result.columns_added = 0

\* ------------------------------------------- the columns the upsert writes
\* the invocation has re-introspected the destination
Reintrospected(p) == inv[p].pc \in {"current_db", "stage", "merge", "drop", "done"}

\* the destination's columns as they are
DestinationColumns(kind) == {c \in Columns : colType[kind][c] # Absent}

\* C23: an upsert writes only the input columns that the destination has
\* when it is introspected again after the expansion: every column of the
\* staged table and of the MERGE is a destination column, an input column
\* the destination still lacks is in neither and is not added at this
\* stage, and it makes the result a success with a warning, not a failure
C23_OnlyDestinationColumnsWritten ==
    \A p \in Procs :
        Reintrospected(p) =>
            LET i == inv[p]
                missing == i.df.columns \ i.existing
            IN  /\ i.all_columns = i.df.columns \cap i.existing
                /\ i.all_columns \subseteq DestinationColumns(i.kind)
                /\ i.pc = "merge" =>
                      temp[<<i.kind, i.wave>>].columns = i.all_columns
                /\ \A c \in missing :
                      /\ c \notin i.all_columns
                      /\ i.existing # {} => colType[i.kind][c] = Absent
                /\ i.warning = (missing # {})
                /\ (Returned(p) /\ i.all_columns # {}
                      /\ i.faults \subseteq {"describe", "alter", "drop"}) =>
                      /\ Succeeded(p)
                      /\ i.msg = IF missing # {}
                                 THEN "Inserted/Updated | warning"
                                 ELSE "Inserted/Updated"

\* an ADD COLUMN failed: the column is left out, the rows are written, the
\* result is a success with a warning
C23_Witness ==
    \E p \in Procs :
        /\ Succeeded(p)
        /\ "alter" \in inv[p].faults
        /\ NewColumn \in inv[p].df.columns \ inv[p].all_columns
        /\ colType[inv[p].kind][NewColumn] = Absent
        /\ inv[p].msg = "Inserted/Updated | warning"
        /\ rows[inv[p].kind] # inv[p].pre

\* C24: when no input column is a destination column the upsert returns a
\* failure: the destination's rows are as they were, no temporary table was
\* created, and neither a MERGE nor a DROP was issued
C24_EmptyIntersectionFails ==
    \A p \in Procs :
        (Reintrospected(p) /\ inv[p].all_columns = {}) =>
            LET i == inv[p] IN
            /\ Returned(p) /\ i.result = "fail"
            /\ i.msg = "No matching columns"
            /\ rows[i.kind] = i.pre
            /\ temp[<<i.kind, i.wave>>] = i.preTemp /\ ~i.staged
            /\ ~WasIssued(p, "SAVE_AS_TABLE")
            /\ ~WasIssued(p, "MERGE") /\ ~WasIssued(p, "DROP")

\* a delta load with rows to write against a destination that holds rows
C24_Witness ==
    \E p \in Procs :
        /\ Returned(p) /\ inv[p].all_columns = {}
        /\ inv[p].df.rows # EmptyBag
        /\ inv[p].pre # EmptyBag
        /\ rows[inv[p].kind] = inv[p].pre

\* ================================== two upserts of the same platform at once
\* two sessions of the application, each calling populate_campaign_data_table
Sessions == {"p1", "p2"}

\* the schema exists, nothing is in progress in either session
InitConcurrent ==
    /\ now = 0
    /\ created = create_objects(Len(execution_order))
    /\ colType = [k \in Kinds |-> [c \in Columns |-> DeclaredType(k, c)]]
    /\ rows = [k \in Kinds |-> EmptyBag]
    /\ temp = [n \in TempNames |-> NoTable]
    /\ view = FALSE /\ log = <<>> /\ calls = "none"
    /\ inv = [p \in Sessions |-> IdleInv]
    /\ flow = IdleFlow
    /\ call = NoCall

\* a session calls populate_campaign_data_table with one row for a wave,
\* whatever the other session is doing
concurrent_call(p) ==
    /\ inv[p].pc = "idle"
    /\ \E wave \in Waves, bag \in InputBags("campaign") :
          /\ BagCardinality(bag) = 1
          /\ StartUpsert(p, "direct", "campaign", wave,
                         InputTable("campaign", wave, FALSE, bag), now + 1)
    /\ UNCHANGED <<call, created, colType, rows, temp, view, log, flow>>

NextConcurrent == \E p \in Sessions : concurrent_call(p) \/ Upsert(p)

SpecConcurrent == InitConcurrent /\ [][NextConcurrent]_vars

\* the temporary table of the invocation holds what the invocation staged
OwnStagedRows(p) ==
    LET i == inv[p] IN
    temp[<<i.kind, i.wave>>] =
        [columns |-> i.all_columns,
         rows |-> df_filtered(i.df, i.all_columns).rows,
         exists |-> TRUE]

\* C25: two concurrent upserts against the same destination never share a
\* temporary table: between its save_as_table and its DROP an invocation
\* finds in its temporary table the rows it staged, neither overwritten nor
\* dropped by the other invocation
C25_TempTableNotShared ==
    \A p \in Sessions :
        inv[p].pc \in {"merge", "drop"} /\ inv[p].staged => OwnStagedRows(p)

\* the two invocations use different waves: their tables are distinct
C25_DistinctWavesNotShared ==
    \A p, q \in Sessions :
        (/\ inv[p].pc \in {"merge", "drop"} /\ inv[p].staged
         /\ inv[q].pc # "idle" /\ inv[q].wave # inv[p].wave) => OwnStagedRows(p)

\* both sessions have staged rows for the same wave
C25_WitnessSameWave ==
    /\ inv["p1"].pc = "merge" /\ inv["p2"].pc = "merge"
    /\ inv["p1"].wave = inv["p2"].wave
    /\ inv["p1"].df.rows # inv["p2"].df.rows

\* ------------------------------------- the steps that do not end an upload
\* C29: in upload_to_snowflake a failed view creation, after a successful
\* schema creation and two successful upserts, is counted as an error and
\* nothing more: insert_processing_log is still called with status SUCCESS
\* and errors_count at least 1, that row is in PROCESSING_LOG once the
\* warehouse has accepted the INSERT, and the invocation returns success; a
\* failed staging upload raises warnings_count only and the upserts follow
C29_ViewAndStagingFailuresGoOn ==
    /\ "view" \in flow.failed =>
          /\ {"schema", "naming", "campaign"} \subseteq flow.attempted
          /\ flow.failed \cap {"schema", "naming", "campaign"} = {}
          /\ flow.errors_count = 1
          /\ flow.pc \in {"log", "done"}
          /\ flow.pc = "done" =>
                /\ flow.result = "ok"
                /\ "log" \in flow.attempted
                /\ "log" \notin flow.failed =>
                      log = << [status |-> "SUCCESS", wave_number |-> flow.wave,
                                errors_count |-> 1,
                                warnings_count |-> flow.warnings_count] >>
    /\ flow.warnings_count \in 0..2
    /\ flow.errors_count = Cardinality(flow.failed \ {"log"})
    /\ (flow.warnings_count > 0 /\ flow.pc \notin {"stage_naming", "naming"}) =>
          "naming" \in flow.attempted

\* both staging uploads and the view creation failed; the audit row says
\* SUCCESS with one error and two warnings
C29_Witness ==
    /\ flow.pc = "done" /\ flow.result = "ok"
    /\ "view" \in flow.failed /\ ~view
    /\ flow.warnings_count = 2
    /\ Len(log) = 1 /\ log[1].status = "SUCCESS"
    /\ log[1].errors_count = 1 /\ log[1].warnings_count = 2
    /\ rows["campaign"] # EmptyBag

\* --------------------------------------------- what a failure result says
\* the message is f"Error: {str(e)}": it holds the text of the exception
CarriesExceptionText(msg) ==
    msg \in {"Error: CURRENT_DATABASE", "Error: SAVE_AS_TABLE", "Error: MERGE"}

\* C28: when a warehouse call of an upsert raises, the DESCRIBE TABLE of an
\* introspection included, the upsert returns (False, message) and the
\* message carries the text of the exception
C28_RaisedCallIsReported ==
    \A p \in Procs :
        (Returned(p) /\ inv[p].faults
             \cap {"describe", "describe_refresh", "current_db", "stage", "merge"}
                 # {}) =>
            /\ inv[p].result = "fail"
            /\ CarriesExceptionText(inv[p].msg)

\* what the code does: a raising SELECT CURRENT_DATABASE(), save_as_table or
\* MERGE is returned with its text; a raising DESCRIBE TABLE is an empty
\* column set, which returns "No matching columns" when it is the second
\* introspection and is not returned at all when it is the first
C28_RaisedCallReportedButDescribe ==
    \A p \in Procs :
        Returned(p) =>
            /\ (inv[p].faults \cap {"current_db", "stage", "merge"} # {}) =>
                  inv[p].result = "fail" /\ CarriesExceptionText(inv[p].msg)
            /\ "describe_refresh" \in inv[p].faults =>
                  inv[p].result = "fail" /\ inv[p].msg = "No matching columns"
            /\ inv[p].result = "fail" =>
                  inv[p].faults \cap {"describe_refresh", "current_db", "stage",
                                      "merge"} # {}

\* the second DESCRIBE TABLE raised on an existing table
C28_WitnessDescribeSwallowed ==
    \E p \in Procs :
        /\ Returned(p) /\ inv[p].faults = {"describe_refresh"}
        /\ inv[p].kind \in created
        /\ inv[p].msg = "No matching columns"

\* the first DESCRIBE TABLE raised and the upsert succeeded
C28_WitnessDescribeUnreported ==
    \E p \in Procs : Succeeded(p) /\ inv[p].faults = {"describe"}

\* ------------------------------------------------ the cells after coercion
\* the declared columns of the call of a type
DeclaredOfType(types) == {c \in DOMAIN ExpectedOfCall : ExpectedOfCall[c] \in types}

\* a cell of a converted INT, FLOAT or DATETIME column: parsed, or NULL
ParsedOrNull(type, v) ==
    \/ v = NULL
    \/ type \in {"INT", "FLOAT"} /\ to_numeric(v)
    \/ type = "DATETIME" /\ v \in DateCells \cup {ParsedTime}

\* C27: the coercion drops no row and leaves no null in a STRING column:
\* after preprocessing no cell of a declared STRING column is null, a cell
\* that was null being the empty string; every cell of a declared INT, FLOAT
\* or DATETIME column is parsed or NULL; and the result has at least one
\* row, at most the rows of the input, and no row twice
C27_CoercionFillsStrings ==
    PreprocessDone =>
        /\ \A c \in DeclaredOfType({"STRING"}) :
           \A r \in BagToSet(call.out.rows) :
              r[c] # NULL /\ r[c] # MissingText
        /\ \A c \in DeclaredOfType({"INT", "FLOAT", "DATETIME"}) :
           \A r \in BagToSet(call.out.rows) :
              ParsedOrNull(ExpectedOfCall[c], r[c])
        /\ BagCardinality(call.out.rows) \in 1..BagCardinality(call.sheet.rows)
        /\ \A r \in BagToSet(call.out.rows) : CopiesIn(r, call.out.rows) = 1

\* what the code does: a null cell of a declared STRING column is the text
\* str() gives for a missing value, never NULL and never made empty; the
\* other columns and the rows are as C27 states
C27_CoercionWritesMissingText ==
    PreprocessDone =>
        /\ \A c \in DeclaredOfType({"STRING"}) :
           \A r \in BagToSet(call.out.rows) : r[c] # NULL
        /\ (NamingDone /\ NULL \in BagToSet(ColumnValues(InputFrame.rows,
                                                         "ad_set_name"))) =>
              \E r \in BagToSet(call.out.rows) : r["ad_set_name"] = MissingText
        /\ \A c \in DeclaredOfType({"INT", "FLOAT", "DATETIME"}) :
           \A r \in BagToSet(call.out.rows) :
              ParsedOrNull(ExpectedOfCall[c], r[c])
        /\ BagCardinality(call.out.rows) \in 1..BagCardinality(call.sheet.rows)
        /\ \A r \in BagToSet(call.out.rows) : CopiesIn(r, call.out.rows) = 1

\* a naming file with an empty ad_set_name cell: the cell is "nan" afterwards
C27_WitnessMissingText ==
    /\ NamingDone
    /\ NULL \in BagToSet(ColumnValues(InputFrame.rows, "ad_set_name"))
    /\ \E r \in BagToSet(call.out.rows) : r["ad_set_name"] = MissingText

\* an unparseable cell of a declared FLOAT column became NULL and two rows
\* became one
C27_WitnessCoerced ==
    /\ CampaignDone
    /\ "abc" \in BagToSet(ColumnValues(InputFrame.rows, "bid"))
    /\ \A r \in BagToSet(call.out.rows) : r["bid"] # "abc"
    /\ BagCardinality(call.out.rows) < BagCardinality(call.sheet.rows)

\* ======================= preprocess_campaign_data, then the campaign upsert
\* variant: the declared columns are converted before anything else
coerce_first_order ==
    <<"normalize", "coerce", "scrub", "wave_number", "reconcile", "backfill",
      "new_columns", "drop_duplicates">>

\* the statements of preprocess_campaign_data, in the order of the code
preprocess_order ==
    <<"normalize", "scrub", "wave_number", "reconcile", "backfill", "coerce",
      "new_columns", "drop_duplicates">>

\* the frame after one of these statements
preprocess_statement(name, frame, sheet, wave_number, lenient) ==
    CASE name = "normalize" -> rename_columns(sheet)
      [] name = "scrub" -> clean_time_formatted_values(frame, lenient)
      [] name = "wave_number" -> add_wave_number(frame, wave_number)
      [] name = "reconcile" -> reconcile_keys(frame)
      [] name = "backfill" ->
            add_missing_columns(frame, expected_campaign_columns)
      [] name = "coerce" ->
            convert_columns(frame,
                            DOMAIN expected_campaign_columns \cap frame.columns,
                            expected_campaign_columns, lenient)
      [] name = "new_columns" -> process_new_columns(frame, lenient)
      [] OTHER -> [frame EXCEPT !.rows = drop_duplicates(@)]

\* the processed frame as populate_campaign_data_table receives it
upload_frame(frame) ==
    [columns |-> frame.columns, dtype |-> frame.dtype,
     rows |-> MapBag(frame.rows, LAMBDA r :
                 [c \in Columns |-> IF c \in SheetColumns THEN r[c] ELSE NULL])]

\* the campaign files of a wave: one row; every column, the keys only, the
\* ad name and the bid, or the ad name alone
MaxWaveRows == 1
WaveColumns ==
    {{"ad_name", "ad_set_name", "bid", "sends"}, {"ad_name", "ad_set_name"},
     {"ad_name", "bid"}, {"ad_name"}}
WaveHeaders == {h \in SheetHeaders :
                  DOMAIN h \in WaveColumns /\ h["ad_name"] = SpacedAdName}
WaveRows ==
    {SheetRow("Ad1", NULL, "1.5"), SheetRow("3", "Set1", "3"),
     SheetRow(NULL, "Set1", "0:00:00")}
WaveSheets ==
    {Sheet(h, bag) : h \in WaveHeaders,
                     bag \in BagsUpTo(WaveRows, MaxWaveRows) \ {EmptyBag}}

NoWave ==
    [fn |-> "end_to_end", pc |-> "idle", sheet |-> Sheet(<<>>, EmptyBag),
     wave |-> "1", lenient |-> {}, done |-> <<>>, frame |-> NoFrame]

\* the schema exists and the campaign table is empty
InitEndToEnd ==
    /\ now = 0
    /\ created = create_objects(Len(execution_order))
    /\ colType = [k \in Kinds |-> [c \in Columns |-> DeclaredType(k, c)]]
    /\ rows = [k \in Kinds |-> EmptyBag]
    /\ temp = [n \in TempNames |-> NoTable]
    /\ view = FALSE /\ log = <<>> /\ calls = "none"
    /\ inv = [p \in Procs |-> IdleInv]
    /\ flow = IdleFlow
    /\ call = NoWave

\* the file of a wave is read: wave 1, then wave 2
read_campaign_file ==
    /\ call.fn = "end_to_end" /\ call.pc \in {"idle", "uploaded"}
    /\ \A p \in Procs : inv[p].pc \in {"idle", "done"}
    /\ calls # "delta"
    /\ \E sheet \in WaveSheets :
          call' = [NoWave EXCEPT !.pc = "preprocess", !.sheet = sheet,
                                 !.wave = IF calls = "none" THEN "1" ELSE "2"]
    /\ UNCHANGED warehouse

\* the next statement of preprocess_campaign_data
preprocess_next_statement ==
    /\ call.fn = "end_to_end" /\ call.pc = "preprocess"
    /\ LET name == preprocess_order[Len(call.done) + 1]
           after == preprocess_statement(name, call.frame, call.sheet,
                                         call.wave, call.lenient)
       IN  call' = [call EXCEPT
                      !.frame = after, !.done = Append(@, name),
                      !.pc = IF Len(call.done) + 1 = Len(preprocess_order)
                             THEN "processed" ELSE "preprocess"]
    /\ UNCHANGED warehouse

\* populate_campaign_data_table(processed frame, wave)
populate_processed(p) ==
    /\ call.fn = "end_to_end" /\ call.pc = "processed"
    /\ StartUpsert(p, "direct", "campaign", call.wave, upload_frame(call.frame),
                   now + 1)
    /\ call' = [call EXCEPT !.pc = "uploaded"]
    /\ UNCHANGED <<created, colType, rows, temp, view, log, flow>>

NextEndToEnd ==
    \/ read_campaign_file
    \/ preprocess_next_statement
    \/ \E p \in Procs : populate_processed(p)
    \/ \E p \in Procs : Upsert(p)

SpecEndToEnd == InitEndToEnd /\ [][NextEndToEnd]_vars

\* the statements of preprocess_campaign_data that have run
Ran(name) == \E n \in DOMAIN call.done : call.done[n] = name

\* a cell as only a conversion writes it
ConversionText(v) == v \in {MissingText, ParsedTime}

\* the statements the upsert issued are the introspection, the ADD COLUMNs,
\* the second introspection and, after it, the rest
ExpandedBeforeMerge(p) ==
    LET s == inv[p].issued IN
    \A m \in DOMAIN s :
        s[m] \in {"CURRENT_DATABASE", "SAVE_AS_TABLE", "MERGE", "DROP"} =>
            \E j \in 2..(m - 1) :
                /\ s[1] = "DESCRIBE" /\ s[j] = "DESCRIBE"
                /\ \A k \in 2..(j - 1) : s[k] = "ALTER"
                /\ \A k \in (j + 1)..m : s[k] \notin {"DESCRIBE", "ALTER"}

\* C26: the steps of one wave run in the order normalize, scrub, reconcile
\* keys, backfill, coerce, expand schema, merge: in preprocess_campaign_data
\* no cell is converted before the scrubbing and the key reconciliation have
\* run, the upsert starts from the frame preprocess_campaign_data returns,
\* and its MERGE is issued only after the schema expansion was attempted and
\* the destination's columns were introspected again
C26_FixedStepOrder ==
    call.fn = "end_to_end" =>
        /\ call.done = SubSeq(<<"normalize", "scrub", "wave_number",
                                "reconcile", "backfill", "coerce",
                                "new_columns", "drop_duplicates">>,
                              1, Len(call.done))
        /\ ~Ran("coerce") =>
              \A r \in BagToSet(call.frame.rows) :
              \A c \in DOMAIN expected_campaign_columns :
                  ~ConversionText(r[c])
        /\ call.pc \in {"processed", "uploaded"} =>
              call.frame = preprocess_campaign_data(call.sheet, call.wave,
                                                    call.lenient)
        /\ \A p \in Procs :
              /\ inv[p].pc \notin {"idle", "done"} => call.pc = "uploaded"
              /\ (inv[p].pc # "idle" /\ call.pc = "uploaded") =>
                    inv[p].df.rows =
                        call_columns(upload_frame(call.frame), call.wave,
                                     now).rows
              /\ ExpandedBeforeMerge(p)
              /\ inv[p].pc \in {"merge", "drop", "done"} /\ inv[p].staged =>
                    inv[p].all_columns =
                        inv[p].df.columns
                            \cap get_table_columns(colType["campaign"], TRUE)

\* a wave whose file has a new column: the column was added before the rows
\* were merged, after the whole preprocessing
C26_Witness ==
    /\ call.fn = "end_to_end" /\ call.pc = "uploaded"
    /\ \E p \in Procs :
          /\ Succeeded(p)
          /\ inv[p].issued = <<"DESCRIBE", "ALTER", "DESCRIBE",
                               "CURRENT_DATABASE", "SAVE_AS_TABLE", "MERGE",
                               "DROP">>
          /\ "sends" \in inv[p].all_columns
    /\ \E r \in BagToSet(call.frame.rows) : r["ad_set_name"] = "Set1"

\* ------------------------------------ a wave that lacks a declared column
\* the second wave was preprocessed and merged
SecondWaveMerged(p) ==
    /\ call.fn = "end_to_end" /\ call.pc = "uploaded" /\ calls = "delta"
    /\ Succeeded(p)

\* the declared campaign columns the raw file of the wave lacks
LackedColumns == DOMAIN expected_campaign_columns \ normalized_columns(call.sheet)

\* the rows the destination held that a row of the wave matches by ad_name
MatchedRows(p) ==
    {t \in BagToSet(inv[p].pre) :
        \E s \in BagToSet(inv[p].df.rows) :
            s["ad_name"] # NULL /\ s["ad_name"] = t["ad_name"]}

\* the rows of the destination with the ad_name of t
RowsNamedAs(t) ==
    {r \in BagToSet(rows["campaign"]) : r["ad_name"] = t["ad_name"]}

\* the destination columns that are not columns of the processed table
ColumnsNotProcessed(p) == Columns \ inv[p].df.columns

\* C30 as stated: when the raw input of a wave lacks a declared campaign
\* column in which the destination row of the same ad_name stores a value,
\* the upsert overwrites that value with NULL, or '' for a STRING column;
\* the destination columns that are not columns of the processed table keep
\* their values in the matched rows
C30_LackedColumnOverwrittenWithDefault ==
    \A p \in Procs :
        SecondWaveMerged(p) =>
            \A t \in MatchedRows(p) :
                /\ \A c \in LackedColumns : \A r \in RowsNamedAs(t) :
                      t[c] # NULL =>
                          r[c] = default_value(expected_campaign_columns[c])
                /\ \E r \in RowsNamedAs(t) :
                      \A c \in ColumnsNotProcessed(p) : r[c] = t[c]

\* C30 as amended: when the raw input of a wave lacks a declared campaign
\* column in which the destination row of the same ad_name stores a value,
\* the upsert overwrites that value with the value the preprocessing gave the
\* column: the wave number for wave_number, the ad_name for ad_set_name, and
\* otherwise NULL, or '' for a STRING column; the destination columns that
\* are not columns of the processed table keep their values in the matched
\* rows
C30_LackedColumnOverwrittenWithBackfill ==
    \A p \in Procs :
        SecondWaveMerged(p) =>
            \A t \in MatchedRows(p) :
                /\ \A c \in LackedColumns : \A r \in RowsNamedAs(t) :
                      /\ c \in inv[p].all_columns
                      /\ r[c] = IF c = "wave_number" THEN call.wave
                                ELSE IF c = "ad_set_name" THEN r["ad_name"]
                                ELSE default_value(expected_campaign_columns[c])
                /\ \E r \in RowsNamedAs(t) :
                      \A c \in ColumnsNotProcessed(p) : r[c] = t[c]

\* the first wave stored a bid and a value in the new column sends; the
\* second wave has neither column: the bid is NULL, sends is as it was
C30_Witness ==
    \E p \in Procs :
        /\ SecondWaveMerged(p)
        /\ "bid" \in LackedColumns
        /\ \E t \in MatchedRows(p) :
              /\ t["bid"] # NULL /\ t["sends"] # NULL
              /\ \A r \in RowsNamedAs(t) :
                    r["bid"] = NULL /\ r["sends"] = t["sends"]
              /\ RowsNamedAs(t) # {}

\* the stored ad set name is overwritten with the ad name
C30_WitnessSiblingKey ==
    \E p \in Procs :
        /\ SecondWaveMerged(p)
        /\ "ad_set_name" \in LackedColumns
        /\ \E t \in MatchedRows(p) :
              /\ t["ad_set_name"] = "Set1"
              /\ \A r \in RowsNamedAs(t) : r["ad_set_name"] = r["ad_name"]

============================================================================
